---- MODULE Spec2Model ----
(***************************************************************************)
(* A model of Subzero's AddressSanitizer instrumentation                   *)
(* (src/src/IceASanInstrumentation.cpp) and of the ARM32 target lowering   *)
(* (src/src/IceTargetLoweringARM32.cpp).                                   *)
(*                                                                         *)
(* The module holds several specifications over one set of variables.     *)
(* Each specification drives one part of the program and leaves the       *)
(* variables of the other parts at their idle values:                     *)
(*   SpecGlobals    instrumentGlobals against concurrent instrumentStart  *)
(*   SpecFunc       the instrumentation walk over one function            *)
(*   SpecTranslate  the pass pipelines translateO2 and translateOm1       *)
(*   SpecLegalize   legalize on constants and variables                   *)
(*   SpecCall       lowerCall                                             *)
(*   SpecArgs       lowerArguments, then split64 / loOperand / hiOperand  *)
(*   SpecFrame      lowerArguments, genCode, register choice, genFrame    *)
(*   SpecLower      one instruction through its lowering handler          *)
(***************************************************************************)
EXTENDS Integers, Sequences, FiniteSets, TLC

VARIABLES
  \* ---- ASanInstrumentation: the globals gate -------------------------
  AssertsEnabled,     \* the build keeps assert() (no NDEBUG)
  Decls,              \* arena of VariableDeclaration objects, index = identity
  Globals,            \* the VariableDeclarationList handed to instrumentGlobals
  origGlobals,        \* the list as it was handed over (sizes, alignments)
  NewGlobals,         \* per call: the local list being built
  gpc,                \* per call of instrumentGlobals: position in the code
  gi,                 \* per call: position of the range-for over Globals
  DidProcessGlobals,
  RzGlobalsNum,
  RzNum,
  mutexHeld,          \* GlobalsMutex is locked
  GlobalsLock,        \* the unique_lock member: [hasMutex, owns]
  wpc,                \* per worker in instrumentStart: position in the code
  callArgs,           \* per worker: the arguments of its __asan_init call
  \* ---- ASanInstrumentation: one function on one translation thread --
  fpc,                \* position of the instrumentation walk over the function
  Nodes,              \* the function's CfgNodes: one instruction list each
  Context,            \* the walk's LoweringContext: [node, cur, next]
  LocalDtors,         \* the thread-local vector: [allocated, list]
  entryAllocas,       \* sizes of the constant-size allocas the entry began with
  nextInst,           \* instructions created in the function so far
  nextVar,            \* Func->makeVariable: variables created so far
  threads,            \* the translation threads: which one runs, the number of
                      \* its function, and what the others stand at
  \* ---- TargetARM32: translateO2 / translateOm1 ------------------------
  optLevel,           \* which pipeline runs: "O2" or "Om1"
  Flags,              \* Ctx->getFlags(): [PhiEdgeSplit, NopInsertion]
  ppc,                \* the pipeline entry the translation stands at
  pst,                \* "off", "run" or "returned"
  hasError,           \* Func->hasError()
  ran,                \* the passes run so far, each with hasError() after it
  \* ---- TargetARM32: one lowering operation ----------------------------
  lowerIn,            \* the operation asked of the target and its operands
  lowerOut,           \* what it returned and the instructions it inserted
  \* ---- TargetARM32: one function through argument lowering and frame -
  tph,                \* the phase the function is in
  tFlags,             \* Ctx->getFlags(): [UseSandboxing, SkipUnimplemented]
  Vars,               \* the function's Variables, index = identity
  Args,               \* Func->getArgs(): indices into Vars
  tNodes,             \* the function's nodes: one instruction list each
  lastOp,             \* the last operand operation and its count
  UsesFramePointer,
  NeedsStackAlignment,
  MaybeLeafFunc,
  SpillAreaSizeBytes,
  RegsUsed,           \* the registers marked used, as a set of numbers
  frameLog            \* what genCode and genFrame did: allocas lowered,
                      \* PreservedRegsSizeBytes, the spill size before the SP
                      \* alignment, the prolog's instructions, epilogs added

asanVars == <<AssertsEnabled, Decls, Globals, origGlobals, NewGlobals, gpc, gi,
              DidProcessGlobals, RzGlobalsNum, RzNum, mutexHeld, GlobalsLock,
              wpc, callArgs>>

funcVars == <<fpc, Nodes, Context, LocalDtors, entryAllocas, nextInst, nextVar,
              threads>>

pipeVars == <<optLevel, Flags, ppc, pst, hasError, ran>>

lowerVars == <<lowerIn, lowerOut>>

codeVars == <<tph, tFlags, Vars, Args, tNodes, lastOp>>

frameVars == <<UsesFramePointer, NeedsStackAlignment, MaybeLeafFunc,
               SpillAreaSizeBytes, RegsUsed, frameLog>>

targetVars == <<pipeVars, lowerVars, codeVars, frameVars>>

vars == <<asanVars, funcVars, targetVars>>

\* What each part of the program leaves alone.
notASan == <<funcVars, targetVars>>
notFunc == <<AssertsEnabled, Decls, Globals, origGlobals, NewGlobals, gpc, gi,
             DidProcessGlobals, RzGlobalsNum, mutexHeld, GlobalsLock, wpc,
             callArgs, targetVars>>
notPipe == <<asanVars, funcVars, lowerVars, codeVars, frameVars>>
notLower == <<asanVars, funcVars, pipeVars, codeVars, frameVars>>
notCode == <<asanVars, funcVars, pipeVars, lowerVars, frameVars>>
notFrame == <<asanVars, funcVars, pipeVars, lowerVars>>

-----------------------------------------------------------------------------
(* Bounds of the model *)

MaxGlobals == 2
MaxWorkers == 2

-----------------------------------------------------------------------------
(* Constants of IceASanInstrumentation.cpp *)

RzSize == 32
RzPrefix == "__$rz"
RzArrayName == "__$rz_array"
RzSizesName == "__$rz_sizes"

Max(a, b) == IF a >= b THEN a ELSE b

\* Utils::OffsetToAlignment(Pos, Align): the padding that brings Pos up to a
\* multiple of Align.
OffsetToAlignment(Pos, Align) == (Align - (Pos % Align)) % Align

-----------------------------------------------------------------------------
(* The globals handed to instrumentGlobals *)

\* What a translation unit's global can look like: byte size of its
\* initializer, declared alignment, zero or data initializer, constness.
GlobalInputs ==
  { [numBytes |-> 10, alignment |-> 1,  nonzero |-> FALSE, isConstant |-> FALSE],
    [numBytes |-> 40, alignment |-> 16, nonzero |-> TRUE,  isConstant |-> TRUE],
    [numBytes |-> 32, alignment |-> 64, nonzero |-> FALSE, isConstant |-> FALSE] }

SeqsUpTo(S, n) == UNION { [1..k -> S] : k \in 0..n }

\* VariableDeclaration as the model keeps it.
MkDecl(name, numBytes, alignment, isConstant, initKind, inits) ==
  [name |-> name, numBytes |-> numBytes, alignment |-> alignment,
   isConstant |-> isConstant, initKind |-> initKind, inits |-> inits]

DeclOfInput(k, g) ==
  MkDecl(<<"g", k>>, g.numBytes, g.alignment, g.isConstant,
         IF g.nonzero THEN "data" ELSE "zero", <<>>)

\* The calls of instrumentGlobals a run can make; a specification decides which
\* of them are made.
GCalls == {1, 2}
Workers == 1..MaxWorkers

\* ASanInstrumentation's constructor and the list handed over by the translator;
\* `made` are the calls of instrumentGlobals the run makes.
ASanInitWith(made) ==
  /\ AssertsEnabled \in BOOLEAN
  /\ origGlobals \in SeqsUpTo(GlobalInputs, MaxGlobals)
  /\ Decls = [k \in 1..Len(origGlobals) |-> DeclOfInput(k, origGlobals[k])]
  /\ Globals = [k \in 1..Len(origGlobals) |-> k]
  /\ NewGlobals = [c \in GCalls |-> <<>>]
  /\ gpc = [c \in GCalls |-> IF c \in made THEN "idle" ELSE "off"]
  /\ gi = [c \in GCalls |-> 0]
  /\ DidProcessGlobals = FALSE
  /\ RzGlobalsNum = 0
  /\ RzNum = 0
  /\ mutexHeld = FALSE
  /\ GlobalsLock = [hasMutex |-> TRUE, owns |-> FALSE]
  /\ wpc = [w \in Workers |-> "idle"]
  /\ callArgs = [w \in Workers |-> <<>>]

\* No instrumentGlobals and no instrumentStart is under way.
ASanIdle ==
  /\ AssertsEnabled = FALSE
  /\ origGlobals = <<>>
  /\ Decls = <<>>
  /\ Globals = <<>>
  /\ NewGlobals = [c \in GCalls |-> <<>>]
  /\ gpc = [c \in GCalls |-> "off"]
  /\ gi = [c \in GCalls |-> 0]
  /\ DidProcessGlobals = FALSE
  /\ RzGlobalsNum = 0
  /\ RzNum = 0
  /\ mutexHeld = FALSE
  /\ GlobalsLock = [hasMutex |-> TRUE, owns |-> FALSE]
  /\ wpc = [w \in Workers |-> "off"]
  /\ callArgs = [w \in Workers |-> <<>>]

\* No translation is under way.
PipeIdle ==
  /\ optLevel = "O2"
  /\ Flags = [PhiEdgeSplit |-> FALSE, NopInsertion |-> FALSE]
  /\ ppc = 0
  /\ pst = "off"
  /\ hasError = FALSE
  /\ ran = <<>>

\* No lowering operation is asked for.
LowerIdle ==
  /\ lowerIn = [op |-> "none"]
  /\ lowerOut = [done |-> FALSE]

\* No function is in the target's hands.
CodeIdle ==
  /\ tph = "off"
  /\ tFlags = [UseSandboxing |-> FALSE, SkipUnimplemented |-> FALSE]
  /\ Vars = <<>>
  /\ Args = <<>>
  /\ tNodes = <<>>
  /\ lastOp = [op |-> "none", v |-> 0, n |-> 0]

\* TargetARM32::TargetARM32: the target as constructed.
FrameIdle ==
  /\ UsesFramePointer = FALSE
  /\ NeedsStackAlignment = FALSE
  /\ MaybeLeafFunc = TRUE
  /\ SpillAreaSizeBytes = 0
  /\ RegsUsed = {}
  /\ frameLog = [allocas |-> 0, Preserved |-> 0, rawSpill |-> 0, prolog |-> <<>>,
                 epilogs |-> 0, placed |-> <<>>]

TargetIdle == PipeIdle /\ LowerIdle /\ CodeIdle /\ FrameIdle

\* One translation thread at its first function.
OneThread == [running |-> 1, func |-> 1, parked |-> <<>>]

\* No function is being instrumented.
FuncIdle ==
  /\ fpc = "off"
  /\ Nodes = <<>>
  /\ Context = [node |-> 0, cur |-> 0, next |-> 0]
  /\ LocalDtors = [allocated |-> FALSE, list |-> <<>>]
  /\ entryAllocas = <<>>
  /\ threads = OneThread
  /\ nextInst = 0
  /\ nextVar = 0

Aborted == \E c \in GCalls : gpc[c] = "aborted"

-----------------------------------------------------------------------------
(* ASanInstrumentation::instrumentGlobals, statement by statement *)

gUnchangedSync == UNCHANGED <<mutexHeld, GlobalsLock, wpc, callArgs, notASan>>

GlobalsCall(c) ==
  /\ ~Aborted
  /\ gpc[c] = "idle"
  /\ gpc' = [gpc EXCEPT ![c] = "check"]
  /\ UNCHANGED <<AssertsEnabled, Decls, Globals, origGlobals, NewGlobals, gi,
                 DidProcessGlobals, RzGlobalsNum, RzNum>>
  /\ gUnchangedSync

\* if (DidProcessGlobals) return;
GlobalsCheck(c) ==
  /\ ~Aborted
  /\ gpc[c] = "check"
  /\ gpc' = [gpc EXCEPT ![c] = IF DidProcessGlobals THEN "returned" ELSE "create"]
  /\ UNCHANGED <<AssertsEnabled, Decls, Globals, origGlobals, NewGlobals, gi,
                 DidProcessGlobals, RzGlobalsNum, RzNum>>
  /\ gUnchangedSync

\* RzArray and RzSizes are created, named, made constant and pushed.
GlobalsCreate(c) ==
  /\ ~Aborted
  /\ gpc[c] = "create"
  /\ LET a == Len(Decls) + 1
         s == Len(Decls) + 2
     IN /\ Decls' = Decls \o
              << MkDecl(RzArrayName, 0, 0, TRUE, "reloc", <<>>),
                 MkDecl(RzSizesName, 0, 0, TRUE, "data", <<>>) >>
        /\ NewGlobals' = [NewGlobals EXCEPT ![c] = <<a, s>>]
  /\ gi' = [gi EXCEPT ![c] = 1]
  /\ gpc' = [gpc EXCEPT ![c] = "loop"]
  /\ UNCHANGED <<AssertsEnabled, Globals, origGlobals, DidProcessGlobals,
                 RzGlobalsNum, RzNum>>
  /\ gUnchangedSync

\* std::max(RzSize, Global->getAlignment())
RzAlignment(align) == Max(RzSize, align)

\* A left redzone of RzSize bytes whatever the alignment.
RzLeftSizeOf_RzSize(align) == RzSize

RzLeftSizeOf(align) == RzAlignment(align)

\* A right redzone padded to RzSize instead of to the raised alignment.
RzRightSizeOf_PadToRzSize(numBytes, align) ==
  RzSize + OffsetToAlignment(numBytes, RzSize)

RzRightSizeOf(numBytes, align) ==
  RzSize + OffsetToAlignment(numBytes, RzAlignment(align))

\* The three declarations one iteration pushes, in push order, given the
\* identities of the two new redzones and of the global.
PushOrder(rzLeft, global, rzRight) == <<rzLeft, global, rzRight>>

\* One iteration of the range-for over Globals; the loop ends when the list is
\* exhausted.
GlobalsLoop(c) ==
  /\ ~Aborted
  /\ gpc[c] = "loop"
  /\ IF gi[c] > Len(Globals)
       THEN /\ gpc' = [gpc EXCEPT ![c] = "replace"]
            /\ UNCHANGED <<Decls, NewGlobals, gi, RzGlobalsNum, RzNum>>
       ELSE LET G == Globals[gi[c]]
                D == Decls[G]
            IN IF AssertsEnabled /\ D.alignment > RzSize
                 THEN /\ gpc' = [gpc EXCEPT ![c] = "aborted"]
                      /\ UNCHANGED <<Decls, NewGlobals, gi, RzGlobalsNum, RzNum>>
                 ELSE LET L == Len(Decls) + 1
                          R == Len(Decls) + 2
                          Alignment == RzAlignment(D.alignment)
                          RzLeftSize == RzLeftSizeOf(D.alignment)
                          RzRightSize == RzRightSizeOf(D.numBytes, D.alignment)
                          kind == IF D.initKind = "data" THEN "data" ELSE "zero"
                          a == NewGlobals[c][1]
                          s == NewGlobals[c][2]
                          withRz == Decls \o
                            << MkDecl(<<RzPrefix, RzNum>>, RzLeftSize, Alignment,
                                      D.isConstant, kind, <<>>),
                               MkDecl(<<RzPrefix, RzNum + 1>>, RzRightSize, 1,
                                      D.isConstant, kind, <<>>) >>
                      IN /\ Decls' = [withRz EXCEPT
                               ![G].alignment = Alignment,
                               ![a].inits = @ \o <<L, R>>,
                               ![s].inits = @ \o <<RzLeftSize, RzRightSize>>]
                         /\ NewGlobals' = [NewGlobals EXCEPT
                               ![c] = @ \o PushOrder(L, G, R)]
                         /\ RzNum' = RzNum + 2
                         /\ RzGlobalsNum' = RzGlobalsNum + 2
                         /\ gi' = [gi EXCEPT ![c] = @ + 1]
                         /\ UNCHANGED gpc
  /\ UNCHANGED <<AssertsEnabled, Globals, origGlobals, DidProcessGlobals>>
  /\ gUnchangedSync

\* Globals.clear(); Globals.merge(&NewGlobals);
GlobalsReplace(c) ==
  /\ ~Aborted
  /\ gpc[c] = "replace"
  /\ Globals' = NewGlobals[c]
  /\ NewGlobals' = [NewGlobals EXCEPT ![c] = <<>>]
  /\ gpc' = [gpc EXCEPT ![c] = "publish"]
  /\ UNCHANGED <<AssertsEnabled, Decls, origGlobals, gi, DidProcessGlobals,
                 RzGlobalsNum, RzNum>>
  /\ gUnchangedSync

\* DidProcessGlobals = true;   (no lock is held)
GlobalsPublish(c) ==
  /\ ~Aborted
  /\ gpc[c] = "publish"
  /\ DidProcessGlobals' = TRUE
  /\ gpc' = [gpc EXCEPT ![c] = "notify"]
  /\ UNCHANGED <<AssertsEnabled, Decls, Globals, origGlobals, NewGlobals, gi,
                 RzGlobalsNum, RzNum>>
  /\ gUnchangedSync

\* GlobalsDoneCV.notify_all();  every thread blocked in wait() is woken.
GlobalsNotify(c) ==
  /\ ~Aborted
  /\ gpc[c] = "notify"
  /\ wpc' = [w \in Workers |-> IF wpc[w] = "waiting" THEN "woken" ELSE wpc[w]]
  /\ gpc' = [gpc EXCEPT ![c] = "done"]
  /\ UNCHANGED <<AssertsEnabled, Decls, Globals, origGlobals, NewGlobals, gi,
                 DidProcessGlobals, RzGlobalsNum, RzNum, mutexHeld, GlobalsLock,
                 callArgs, notASan>>

-----------------------------------------------------------------------------
(* ASanInstrumentation::instrumentStart, statement by statement *)

wUnchangedGlobals ==
  UNCHANGED <<AssertsEnabled, Decls, Globals, origGlobals, NewGlobals, gpc, gi,
              DidProcessGlobals, RzGlobalsNum, RzNum, notASan>>

\* The __asan_init call is created without arguments and pushed to the front
\* of the entry node.
StartCall(w) ==
  /\ ~Aborted
  /\ wpc[w] = "idle"
  /\ wpc' = [wpc EXCEPT ![w] = "check"]
  /\ UNCHANGED <<mutexHeld, GlobalsLock, callArgs>>
  /\ wUnchangedGlobals

\* A start hook that does not wait for the globals.
StartCheck_NoGate(w) ==
  /\ ~Aborted
  /\ wpc[w] = "check"
  /\ wpc' = [wpc EXCEPT ![w] = "read"]
  /\ UNCHANGED <<mutexHeld, GlobalsLock, callArgs>>
  /\ wUnchangedGlobals

\* if (!DidProcessGlobals) { ... }
StartCheck(w) ==
  /\ ~Aborted
  /\ wpc[w] = "check"
  /\ wpc' = [wpc EXCEPT ![w] = IF DidProcessGlobals THEN "read" ELSE "lock"]
  /\ UNCHANGED <<mutexHeld, GlobalsLock, callArgs>>
  /\ wUnchangedGlobals

\* GlobalsLock.lock(): std::unique_lock::lock throws std::system_error when it
\* has no mutex or already owns it; otherwise it blocks until the mutex is free.
StartLock(w) ==
  /\ ~Aborted
  /\ wpc[w] = "lock"
  /\ \/ /\ (~GlobalsLock.hasMutex \/ GlobalsLock.owns)
        /\ wpc' = [wpc EXCEPT ![w] = "threw"]
        /\ UNCHANGED <<mutexHeld, GlobalsLock>>
     \/ /\ GlobalsLock.hasMutex /\ ~GlobalsLock.owns
        /\ ~mutexHeld
        /\ mutexHeld' = TRUE
        /\ GlobalsLock' = [GlobalsLock EXCEPT !.owns = TRUE]
        /\ wpc' = [wpc EXCEPT ![w] = "loopcheck"]
  /\ UNCHANGED callArgs
  /\ wUnchangedGlobals

\* while (!DidProcessGlobals)
StartLoopCheck(w) ==
  /\ ~Aborted
  /\ wpc[w] = "loopcheck"
  /\ wpc' = [wpc EXCEPT ![w] = IF DidProcessGlobals THEN "release" ELSE "wait"]
  /\ UNCHANGED <<mutexHeld, GlobalsLock, callArgs>>
  /\ wUnchangedGlobals

\* GlobalsDoneCV.wait(GlobalsLock): the mutex is released and the thread
\* blocks, in one step.
StartWait(w) ==
  /\ ~Aborted
  /\ wpc[w] = "wait"
  /\ mutexHeld' = FALSE
  /\ wpc' = [wpc EXCEPT ![w] = "waiting"]
  /\ UNCHANGED <<GlobalsLock, callArgs>>
  /\ wUnchangedGlobals

\* A condition variable may wake a waiter without a notification.
SpuriousWake(w) ==
  /\ ~Aborted
  /\ wpc[w] = "waiting"
  /\ wpc' = [wpc EXCEPT ![w] = "woken"]
  /\ UNCHANGED <<mutexHeld, GlobalsLock, callArgs>>
  /\ wUnchangedGlobals

\* wait() returns only after it has locked the mutex again.
StartReacquire(w) ==
  /\ ~Aborted
  /\ wpc[w] = "woken"
  /\ ~mutexHeld
  /\ mutexHeld' = TRUE
  /\ wpc' = [wpc EXCEPT ![w] = "loopcheck"]
  /\ UNCHANGED <<GlobalsLock, callArgs>>
  /\ wUnchangedGlobals

\* GlobalsLock.release(): the unique_lock gives up its mutex without
\* unlocking it.
StartRelease(w) ==
  /\ ~Aborted
  /\ wpc[w] = "release"
  /\ GlobalsLock' = [hasMutex |-> FALSE, owns |-> FALSE]
  /\ wpc' = [wpc EXCEPT ![w] = "read"]
  /\ UNCHANGED <<mutexHeld, callArgs>>
  /\ wUnchangedGlobals

\* Call->addArg(RzGlobalsNum); Call->addArg(__$rz_array); Call->addArg(__$rz_sizes)
StartAddArgs(w) ==
  /\ ~Aborted
  /\ wpc[w] = "read"
  /\ callArgs' = [callArgs EXCEPT ![w] = <<RzGlobalsNum, RzArrayName, RzSizesName>>]
  /\ wpc' = [wpc EXCEPT ![w] = "done"]
  /\ UNCHANGED <<mutexHeld, GlobalsLock>>
  /\ wUnchangedGlobals

-----------------------------------------------------------------------------
(* SpecGlobals: one instrumentGlobals call against the workers' instrumentStart *)

GlobalsNext ==
  \/ \E c \in GCalls :
       \/ GlobalsCall(c)
       \/ GlobalsCheck(c)
       \/ GlobalsCreate(c)
       \/ GlobalsLoop(c)
       \/ GlobalsReplace(c)
       \/ GlobalsPublish(c)
       \/ GlobalsNotify(c)
  \/ \E w \in Workers :
       \/ StartCall(w)
       \/ StartCheck(w)
       \/ StartLock(w)
       \/ StartLoopCheck(w)
       \/ StartWait(w)
       \/ SpuriousWake(w)
       \/ StartReacquire(w)
       \/ StartRelease(w)
       \/ StartAddArgs(w)

GlobalsInit == ASanInitWith({1}) /\ FuncIdle /\ TargetIdle

SpecGlobals == GlobalsInit /\ [][GlobalsNext]_vars

\* The padding the layout needs: the least p with numBytes + p a multiple of A.
PadTo(numBytes, A) == CHOOSE p \in 0..(A - 1) : (numBytes + p) % A = 0

\* C1: whatever the interleaving of instrumentGlobals with the workers'
\* instrumentStart calls, a worker reads RzGlobalsNum only once
\* DidProcessGlobals is true, and the count it adds to its __asan_init call
\* is the final one, two per original global.
C1_StartSeesFinalCount ==
  \A w \in Workers :
    /\ (wpc[w] = "read" => DidProcessGlobals)
    /\ (Len(callArgs[w]) > 0 => callArgs[w][1] = 2 * Len(origGlobals))

\* A worker went through the lock, the wait and the release, and added the
\* count of a non-empty list.
C1_Witness ==
  \E w \in Workers :
    /\ wpc[w] = "done"
    /\ ~GlobalsLock.hasMutex
    /\ Len(origGlobals) >= 1
    /\ callArgs[w][1] = RzGlobalsNum

\* C2: after instrumentGlobals the list is __$rz_array, __$rz_sizes and then,
\* for each original global in the original order, its left redzone, the
\* global itself and its right redzone; with A = max(32, align(G)) the left
\* redzone has A bytes, the right one 32 + pad_to_alignment(size(G), A), and
\* G's alignment is A.
C2_GlobalsLayout ==
  gpc[1] \in {"publish", "notify", "done"} =>
    LET n == Len(origGlobals) IN
    /\ Len(Globals) = 2 + 3 * n
    /\ Decls[Globals[1]].name = RzArrayName
    /\ Decls[Globals[2]].name = RzSizesName
    /\ \A k \in 1..n :
         LET A == IF origGlobals[k].alignment > 32
                    THEN origGlobals[k].alignment ELSE 32
             L == Decls[Globals[3 * k]]
             R == Decls[Globals[3 * k + 2]]
         IN /\ L.name[1] = RzPrefix
            /\ L.numBytes = A
            /\ Globals[3 * k + 1] = k
            /\ Decls[k].name = <<"g", k>>
            /\ Decls[k].alignment = A
            /\ Decls[k].numBytes = origGlobals[k].numBytes
            /\ R.name[1] = RzPrefix
            /\ R.name[2] = L.name[2] + 1
            /\ R.numBytes = 32 + PadTo(origGlobals[k].numBytes, A)

\* instrumentGlobals has finished on two globals, one of them aligned above 32.
C2_Witness ==
  /\ gpc[1] = "done"
  /\ Len(origGlobals) = 2
  /\ \E k \in 1..2 : origGlobals[k].alignment > 32
  /\ \E k \in 1..2 : origGlobals[k].numBytes % 32 # 0

\* The redzones made for the k-th original global.
RzLeftOf(k) == Decls[Globals[3 * k]]
RzRightOf(k) == Decls[Globals[3 * k + 2]]

\* C11 as the spec states it: every redzone, left or right, has exactly 32
\* bytes and an alignment of at least 32 and of at least its global's.
C11_AsStated ==
  gpc[1] \in {"publish", "notify", "done"} =>
    \A k \in 1..Len(origGlobals) :
      \A Rz \in {RzLeftOf(k), RzRightOf(k)} :
        /\ Rz.numBytes = RzSize
        /\ Rz.alignment >= RzSize
        /\ Rz.alignment >= origGlobals[k].alignment

\* C11: with A the larger of 32 and the global's alignment, the left redzone
\* has A bytes and alignment A; the right redzone has 32 bytes plus what
\* brings the global's size up to a multiple of A, hence 32 only when the size
\* is such a multiple, and its alignment is 1.
C11_RedzoneShape ==
  gpc[1] \in {"publish", "notify", "done"} =>
    \A k \in 1..Len(origGlobals) :
      LET A == Max(RzSize, origGlobals[k].alignment)
          n == origGlobals[k].numBytes
      IN /\ RzLeftOf(k).numBytes = A
         /\ RzLeftOf(k).alignment = A
         /\ RzRightOf(k).alignment = 1
         /\ RzRightOf(k).numBytes >= RzSize
         /\ RzRightOf(k).numBytes < RzSize + A
         /\ (n + RzRightOf(k).numBytes) % A = RzSize % A
         /\ (RzRightOf(k).numBytes = RzSize) = (n % A = 0)

\* The 10-byte global of alignment 1 got a right redzone of 54 bytes, and a
\* global aligned to 64 a left redzone of 64 bytes.
C11_Witness ==
  /\ gpc[1] = "done"
  /\ \E k \in 1..Len(origGlobals) :
       origGlobals[k].numBytes = 10 /\ RzRightOf(k).numBytes = 54
  /\ \E k \in 1..Len(origGlobals) :
       origGlobals[k].alignment = 64 /\ RzLeftOf(k).numBytes = 64

-----------------------------------------------------------------------------
(* Instructions, operands and the LoweringContext *)

MaxAllocas == 2
MaxRetNodes == 2

NoOperand == [k |-> "none", v |-> 0]
Var(n) == [k |-> "var", v |-> n]
Const32(n) == [k |-> "const", v |-> n]

\* Inst::create of the high-level instruction kinds the instrumentation makes
\* or meets: alloca, arithmetic add, call, load, store, br, ret.
MkInst(id, kind, dest, target, args, align) ==
  [id |-> id, kind |-> kind, deleted |-> FALSE, dest |-> dest,
   target |-> target, args |-> args, align |-> align,
   direct |-> TRUE, tail |-> FALSE, ty |-> "i32"]

\* InstCall::create(Cfg, NumArgs, Dest, CallTarget, HasTailCall) followed by
\* addArg of every argument.  direct says that the target is a
\* ConstantRelocatable of that name, and not a variable.
InstCall(id, dest, target, direct, args, tail) ==
  [MkInst(id, "call", dest, target, args, 0) EXCEPT !.direct = direct,
                                                   !.tail = tail]

\* InstLoad::create and InstStore::create: ty is the type of the loaded Dest or
\* of the stored Data.  A load's sources are <<Addr>>, a store's <<Data, Addr>>.
InstAccess(id, kind, dest, args, ty) ==
  [MkInst(id, kind, dest, "", args, 0) EXCEPT !.ty = ty]

\* typeWidthInBytes of the scalar and vector types.
typeWidthInBytes(ty) ==
  CASE ty \in {"i1", "i8"} -> 1
    [] ty = "i16" -> 2
    [] ty \in {"i32", "f32"} -> 4
    [] ty \in {"i64", "f64"} -> 8
    [] OTHER -> 16

\* dyn_cast<InstAlloca>(Cur) && dyn_cast<ConstantInteger32>(Cur->getSizeInBytes())
IsConstAlloca(I) == I.kind = "alloca" /\ I.args[1].k = "const"

InsertAt(list, i, I) ==
  [j \in 1..(Len(list) + 1) |->
     IF j < i THEN list[j] ELSE IF j = i THEN I ELSE list[j - 1]]

\* LoweringContext::skipDeleted: the first position from i on that holds an
\* instruction not marked deleted, or the end.
SkipDeleted(list, i) ==
  LET live == { j \in i..Len(list) : ~list[j].deleted }
  IN IF live = {} THEN Len(list) + 1
     ELSE CHOOSE j \in live : \A m \in live : j <= m

\* LoweringContext::advanceForward
AdvanceForward(list, i) ==
  IF i > Len(list) THEN i ELSE SkipDeleted(list, i + 1)

\* LoweringContext::init(Node): Cur is the first live instruction, Next the
\* live instruction after it.
CtxInit(list, n) ==
  LET c == SkipDeleted(list, 1)
  IN [node |-> n, cur |-> c, next |-> AdvanceForward(list, c)]

\* LoweringContext::insert: the instruction goes in front of Next; Cur and Next
\* keep pointing at the instructions they pointed at.
CtxInsert(list, cur, next, I) ==
  [list |-> InsertAt(list, next, I),
   cur |-> IF cur >= next THEN cur + 1 ELSE cur,
   next |-> next + 1]

RECURSIVE CtxInsertAll(_, _, _, _)
CtxInsertAll(list, cur, next, Is) ==
  IF Is = <<>> THEN [list |-> list, cur |-> cur, next |-> next]
  ELSE LET one == CtxInsert(list, cur, next, Head(Is))
       IN CtxInsertAll(one.list, one.cur, one.next, Tail(Is))

-----------------------------------------------------------------------------
(* The functions handed to the instrumentation *)

\* The sizes tried: one byte, the spec's 40, a multiple of 32, and the largest
\* size whose padded count stays below 2^31.
AllocaSizes == {1, 40, 64, 2147483583}

\* What follows the entry's run of constant-size allocas, before the terminator.
EntryTails ==
  { <<>>, <<"dynalloca">>, <<"load", "constalloca">>,
    <<"malloc", "load64">>, <<"free", "store16">>, <<"load8", "malloc">>,
    <<"indirect", "calloc">>, <<"store128", "free">> }

\* The entry node: the constant-size allocas (destinations Var(1)..Var(k)), the
\* tail, and a terminator.
EntryNode(sizes, tail, term) ==
  LET k == Len(sizes)
      allocas == [j \in 1..k |->
                    MkInst(j, "alloca", Var(j), "", <<Const32(sizes[j])>>, 4)]
      rest == [j \in 1..Len(tail) |->
                 CASE tail[j] = "dynalloca" ->
                        MkInst(k + j, "alloca", Var(k + j), "", <<Var(k + j + 1)>>, 4)
                   [] tail[j] = "constalloca" ->
                        MkInst(k + j, "alloca", Var(k + j), "", <<Const32(40)>>, 4)
                   [] tail[j] = "malloc" ->
                        InstCall(k + j, Var(k + j), "malloc", TRUE,
                                 <<Const32(40)>>, FALSE)
                   [] tail[j] = "free" ->
                        InstCall(k + j, NoOperand, "free", TRUE,
                                 <<Var(k + j + 1)>>, TRUE)
                   [] tail[j] = "indirect" ->
                        InstCall(k + j, Var(k + j), "malloc", FALSE,
                                 <<Const32(40)>>, FALSE)
                   [] tail[j] = "calloc" ->
                        InstCall(k + j, Var(k + j), "calloc", TRUE,
                                 <<Const32(2), Var(k + j + 1)>>, TRUE)
                   [] tail[j] = "load8" ->
                        InstAccess(k + j, "load", Var(k + j), <<Var(k + j + 1)>>, "i8")
                   [] tail[j] = "load64" ->
                        InstAccess(k + j, "load", Var(k + j), <<Var(k + j + 1)>>, "i64")
                   [] tail[j] = "store16" ->
                        InstAccess(k + j, "store", NoOperand,
                                   <<Var(k + j + 1), Var(k + j)>>, "i16")
                   [] tail[j] = "store128" ->
                        InstAccess(k + j, "store", NoOperand,
                                   <<Var(k + j + 1), Var(k + j)>>, "v4i32")
                   [] OTHER ->
                        MkInst(k + j, "load", Var(k + j), "", <<Var(k + j + 1)>>, 0)]
  IN allocas \o rest \o
       <<MkInst(k + Len(tail) + 1, term, NoOperand, "", <<>>, 0)>>

\* A further node that ends in a return.
RetNode(firstId) ==
  << MkInst(firstId, "store", NoOperand, "", <<Var(1), Var(2)>>, 0),
     MkInst(firstId + 1, "ret", NoOperand, "", <<>>, 0) >>

FuncInit ==
  /\ entryAllocas \in SeqsUpTo(AllocaSizes, MaxAllocas)
  /\ \E tail \in EntryTails, term \in {"ret", "br"}, r \in 0..MaxRetNodes :
       LET entry == EntryNode(entryAllocas, tail, term)
           n == Len(entry)
       IN /\ Nodes = <<entry>> \o [j \in 1..r |-> RetNode(n + 2 * j - 1)]
          /\ nextInst = n + 2 * r
          /\ nextVar = n + 1
          /\ Context = CtxInit(entry, 1)
  /\ LocalDtors = [allocated |-> FALSE, list |-> <<>>]
  /\ threads = OneThread
  /\ fpc = "funcstart"

-----------------------------------------------------------------------------
(* ASanInstrumentation::instrumentFuncStart *)

\* A redzone of RzSize bytes whatever the variable's size.
RzPaddingOf_NoPad(VarSize) == RzSize

\* SizeT RzPadding = RzSize + Utils::OffsetToAlignment(VarSize, RzSize);
RzPaddingOf(VarSize) == RzSize + OffsetToAlignment(VarSize, RzSize)

\* The while loop over the entry's leading constant-size allocas.  st carries
\* the entry's list, the local context C, LocalDtors, Initializations and the
\* counters.
RECURSIVE AllocaRun(_)
AllocaRun(st) ==
  IF st.cur <= Len(st.list) /\ IsConstAlloca(st.list[st.cur])
    THEN LET Cur == st.list[st.cur]
             VarSize == Cur.args[1].v
             Dest == Cur.dest
             RzPadding == RzPaddingOf(VarSize)
             NewVar == MkInst(st.nInst + 1, "alloca", Dest, "",
                              <<Const32(VarSize + RzPadding)>>, 8)
             RzLocVar == Var(st.nVar + 1)
             RzLoc == MkInst(st.nInst + 2, "add", RzLocVar, "",
                             <<Dest, Const32(VarSize)>>, 0)
             Init == MkInst(st.nInst + 3, "call", NoOperand, "__asan_poison",
                            <<RzLocVar, Const32(RzPadding)>>, 0)
             Destroy == MkInst(st.nInst + 4, "call", NoOperand, "__asan_unpoison",
                               <<RzLocVar, Const32(RzPadding)>>, 0)
             ins == CtxInsert([st.list EXCEPT ![st.cur].deleted = TRUE],
                              st.cur, st.next, NewVar)
         IN AllocaRun([list |-> ins.list,
                       cur |-> ins.next,
                       next |-> AdvanceForward(ins.list, ins.next),
                       dtors |-> Append(st.dtors, Destroy),
                       inits |-> st.inits \o <<RzLoc, Init>>,
                       nInst |-> st.nInst + 4,
                       nVar |-> st.nVar + 1,
                       rz |-> st.rz + 1,
                       hasLocals |-> TRUE])
    ELSE st

\* A start that adds the leftmost redzone whether or not the function has
\* locals.
AddLeftmost_Always(hasLocals) == TRUE

\* if (HasLocals) { ... }
AddLeftmost(hasLocals) == hasLocals

\* The whole of instrumentFuncStart on the entry list: the loop, the leftmost
\* redzone, the initializers.
FuncStartResult(list, dtors, nInst, nVar, rz) ==
  LET C == CtxInit(list, 1)
      run == AllocaRun([list |-> list, cur |-> C.cur, next |-> C.next,
                        dtors |-> dtors, inits |-> <<>>, nInst |-> nInst,
                        nVar |-> nVar, rz |-> rz, hasLocals |-> FALSE])
      \* C.setInsertPoint(C.getCur())
      at == run.cur
  IN IF AddLeftmost(run.hasLocals)
       THEN LET LastRz == Var(run.nVar + 1)
                RzAlloca == MkInst(run.nInst + 1, "alloca", LastRz, "",
                                   <<Const32(RzSize)>>, 8)
                Init == MkInst(run.nInst + 2, "call", NoOperand, "__asan_poison",
                               <<LastRz, Const32(RzSize)>>, 0)
                Destroy == MkInst(run.nInst + 3, "call", NoOperand,
                                  "__asan_unpoison", <<LastRz, Const32(RzSize)>>, 0)
                ins == CtxInsertAll(run.list, at, at, <<RzAlloca, Init>> \o run.inits)
            IN [list |-> ins.list, dtors |-> Append(run.dtors, Destroy),
                nInst |-> run.nInst + 3, nVar |-> run.nVar + 1, rz |-> run.rz + 1]
       ELSE LET ins == CtxInsertAll(run.list, at, at, run.inits)
            IN [list |-> ins.list, dtors |-> run.dtors,
                nInst |-> run.nInst, nVar |-> run.nVar, rz |-> run.rz]

InstrumentFuncStart ==
  /\ fpc = "funcstart"
  /\ LET res == FuncStartResult(Nodes[1], LocalDtors.list, nextInst, nextVar, RzNum)
     IN /\ Nodes' = [Nodes EXCEPT ![1] = res.list]
        /\ LocalDtors' = [allocated |-> TRUE, list |-> res.dtors]
        /\ nextInst' = res.nInst
        /\ nextVar' = res.nVar
        /\ RzNum' = res.rz
        \* the driver starts its walk at the first node
        /\ Context' = CtxInit(res.list, 1)
  /\ fpc' = "walk"
  /\ UNCHANGED <<entryAllocas, threads, notFunc>>

-----------------------------------------------------------------------------
(* The walk over the instructions, instrumentRet and finishFunc *)

AtEnd == Context.cur > Len(Nodes[Context.node])

\* Context.advanceCur(); Context.advanceNext();
Advance(list, cur, next) ==
  [node |-> Context.node, cur |-> next, next |-> AdvanceForward(list, next)]

\* The unpoison calls instrumentRet inserts, in insertion order.
DtorsToInsert_Reversed(dtors) ==
  [j \in 1..Len(dtors) |-> dtors[Len(dtors) + 1 - j]]

\* for (InstCall *RzUnpoison : *LocalDtors)
DtorsToInsert(dtors) == dtors

\* instrumentRet: the insert point is moved to Cur, every LocalDtors entry is
\* inserted there, and Next is put back.
InstrumentRet ==
  /\ fpc = "walk"
  /\ ~AtEnd
  /\ Nodes[Context.node][Context.cur].kind = "ret"
  /\ LET list == Nodes[Context.node]
         m == Len(LocalDtors.list)
         ins == CtxInsertAll(list, Context.cur, Context.cur,
                             DtorsToInsert(LocalDtors.list))
         Next == Context.next + m
     IN /\ Nodes' = [Nodes EXCEPT ![Context.node] = ins.list]
        /\ Context' = Advance(ins.list, ins.cur, Next)
  /\ UNCHANGED <<fpc, LocalDtors, entryAllocas, threads, nextInst, nextVar,
                 RzNum, notFunc>>

\* const string_map FuncSubstitutions
FuncSubstitutions == [malloc |-> "__asan_malloc", free |-> "__asan_free"]

\* A substitution that looks at the target's name only.
Substituted_AnyTarget(Instr) == Instr.target \in DOMAIN FuncSubstitutions

\* The two early returns of instrumentCall are not taken: the target is a
\* ConstantRelocatable and FuncSubstitutions has its name.
Substituted(Instr) ==
  Instr.direct /\ Instr.target \in DOMAIN FuncSubstitutions

\* instrumentCall on the context (list, cur, next): the new call is inserted in
\* front of Next and the old one is marked deleted.
instrumentCall(list, cur, next, nInst) ==
  LET Instr == list[cur]
  IN IF ~Substituted(Instr)
       THEN [list |-> list, cur |-> cur, next |-> next, nInst |-> nInst]
       ELSE LET NewCall == InstCall(nInst + 1, Instr.dest,
                                    FuncSubstitutions[Instr.target], TRUE,
                                    Instr.args, Instr.tail)
                ins == CtxInsert(list, cur, next, NewCall)
            IN [list |-> [ins.list EXCEPT ![ins.cur].deleted = TRUE],
                cur |-> ins.cur, next |-> ins.next, nInst |-> nInst + 1]

\* instrumentAccess: the call to __asan_check is inserted with the insert point
\* moved to Cur, and Next is put back.
instrumentAccess(list, cur, next, nInst, Op, Size) ==
  LET Call == InstCall(nInst + 1, NoOperand, "__asan_check", TRUE,
                       <<Op, Const32(Size)>>, FALSE)
      ins == CtxInsert(list, cur, cur, Call)
  IN [list |-> ins.list, cur |-> ins.cur, next |-> next + 1,
      nInst |-> nInst + 1]

\* A check of a load that always passes the width of a pointer.
instrumentLoad_Width4(list, cur, next, nInst) ==
  instrumentAccess(list, cur, next, nInst, list[cur].args[1], 4)

\* instrumentLoad: getSourceAddress() and the width of the destination's type.
instrumentLoad(list, cur, next, nInst) ==
  instrumentAccess(list, cur, next, nInst, list[cur].args[1],
                   typeWidthInBytes(list[cur].ty))

\* instrumentStore: getAddr() and the width of the stored data's type.
instrumentStore(list, cur, next, nInst) ==
  instrumentAccess(list, cur, next, nInst, list[cur].args[2],
                   typeWidthInBytes(list[cur].ty))

\* The walk meets a call: instrumentCall, then the context advances.
VisitCall ==
  /\ fpc = "walk"
  /\ ~AtEnd
  /\ Nodes[Context.node][Context.cur].kind = "call"
  /\ LET res == instrumentCall(Nodes[Context.node], Context.cur, Context.next,
                               nextInst)
     IN /\ Nodes' = [Nodes EXCEPT ![Context.node] = res.list]
        /\ nextInst' = res.nInst
        /\ Context' = Advance(res.list, res.cur, res.next)
  /\ UNCHANGED <<fpc, LocalDtors, entryAllocas, threads, nextVar, RzNum,
                 notFunc>>

\* The walk meets a load or a store: instrumentLoad or instrumentStore, then
\* the context advances.
VisitAccess ==
  /\ fpc = "walk"
  /\ ~AtEnd
  /\ Nodes[Context.node][Context.cur].kind \in {"load", "store"}
  /\ LET list == Nodes[Context.node]
         res == IF list[Context.cur].kind = "load"
                  THEN instrumentLoad(list, Context.cur, Context.next, nextInst)
                  ELSE instrumentStore(list, Context.cur, Context.next, nextInst)
     IN /\ Nodes' = [Nodes EXCEPT ![Context.node] = res.list]
        /\ nextInst' = res.nInst
        /\ Context' = Advance(res.list, res.cur, res.next)
  /\ UNCHANGED <<fpc, LocalDtors, entryAllocas, threads, nextVar, RzNum,
                 notFunc>>

\* Any other instruction the walk meets.
VisitOther ==
  /\ fpc = "walk"
  /\ ~AtEnd
  /\ Nodes[Context.node][Context.cur].kind \notin {"ret", "call", "load", "store"}
  /\ Context' = Advance(Nodes[Context.node], Context.cur, Context.next)
  /\ UNCHANGED <<fpc, Nodes, LocalDtors, entryAllocas, threads, nextInst,
                 nextVar, RzNum, notFunc>>

\* The walk goes on with the next node.
NextNode ==
  /\ fpc = "walk"
  /\ AtEnd
  /\ Context.node < Len(Nodes)
  /\ Context' = CtxInit(Nodes[Context.node + 1], Context.node + 1)
  /\ UNCHANGED <<fpc, Nodes, LocalDtors, entryAllocas, threads, nextInst,
                 nextVar, RzNum, notFunc>>

WalkDone ==
  /\ fpc = "walk"
  /\ AtEnd
  /\ Context.node = Len(Nodes)
  /\ fpc' = "finish"
  /\ UNCHANGED <<Nodes, Context, LocalDtors, entryAllocas, threads, nextInst,
                 nextVar, RzNum, notFunc>>

\* A finishFunc that leaves the vector as it is.
ClearedDtors_Kept(dtors) == dtors

\* LocalDtors->clear()
ClearedDtors(dtors) == <<>>

\* finishFunc: LocalDtors->clear()
FinishFunc ==
  /\ fpc = "finish"
  /\ LocalDtors' = [LocalDtors EXCEPT !.list = ClearedDtors(@)]
  /\ fpc' = "done"
  /\ UNCHANGED <<Nodes, Context, entryAllocas, threads, nextInst, nextVar,
                 RzNum, notFunc>>

FuncNext ==
  \/ InstrumentFuncStart
  \/ InstrumentRet
  \/ VisitCall
  \/ VisitAccess
  \/ VisitOther
  \/ NextNode
  \/ WalkDone
  \/ FinishFunc

InstrumentFuncInit == ASanIdle /\ FuncInit /\ TargetIdle

SpecFunc == InstrumentFuncInit /\ [][FuncNext]_vars

IsUnpoison(I) == I.kind = "call" /\ I.target = "__asan_unpoison" /\ ~I.deleted

\* The number of __asan_unpoison calls that stand directly in front of
\* position i.
UnpoisonRunBefore(list, i) ==
  LET runs == { m \in 0..(i - 1) : \A j \in (i - m)..(i - 1) : IsUnpoison(list[j]) }
  IN CHOOSE m \in runs : \A o \in runs : o <= m

\* The returns the walk has passed.
Walked == fpc \in {"finish", "done"}

Returns ==
  UNION { { <<n, i>> : i \in { j \in 1..Len(Nodes[n]) : Nodes[n][j].kind = "ret" } } :
          n \in 1..Len(Nodes) }

EntryLive(Is(_)) ==
  { e \in 1..Len(Nodes[1]) : ~Nodes[1][e].deleted /\ Is(Nodes[1][e]) }

\* C15: after instrumentFuncStart, for the j-th constant-size alloca of the
\* entry run, of size s and destination d: the original alloca is deleted and
\* one live alloca defines d, of s + 32 + pad(s, 32) bytes, a multiple of 32,
\* at alignment 8; one add computes d + s into a variable r; one
\* __asan_poison call, behind both, takes (r, 32 + pad(s, 32)); and the j-th
\* LocalDtors entry is __asan_unpoison with the same two arguments.  The
\* redzone's size is the new byte count less s; s = 40 gives 96 and 56.
C15_RedzoneSizes ==
  fpc \in {"walk", "finish"} =>
    \A j \in 1..Len(entryAllocas) :
      LET s == entryAllocas[j]
          pad == PadTo(s, 32)
          entry == Nodes[1]
          IsNew(I) == I.kind = "alloca" /\ I.dest = Var(j)
          IsLoc(I) == I.kind = "add" /\ I.args[1] = Var(j)
          news == EntryLive(IsNew)
          locs == EntryLive(IsLoc)
          U == LocalDtors.list[j]
      IN /\ \A e \in 1..Len(entry) : entry[e].id = j => entry[e].deleted
         /\ Cardinality(news) = 1
         /\ Cardinality(locs) = 1
         /\ \A a \in news, l \in locs :
              LET R == entry[l].dest
                  IsPoison(I) == I.kind = "call" /\ I.target = "__asan_poison"
                                   /\ I.args[1] = R
                  poisons == EntryLive(IsPoison)
                  total == entry[a].args[1].v
              IN /\ entry[a].args = <<Const32(s + 32 + pad)>>
                 /\ total % 32 = 0
                 /\ entry[a].align = 8
                 /\ entry[l].args = <<Var(j), Const32(s)>>
                 /\ R.k = "var" /\ R.v > Len(entryAllocas)
                 /\ Cardinality(poisons) = 1
                 /\ \A q \in poisons :
                      /\ entry[q].args = <<R, Const32(total - s)>>
                      /\ a < l /\ l < q
                 /\ U.kind = "call" /\ U.target = "__asan_unpoison"
                 /\ U.args = <<R, Const32(total - s)>>
                 /\ s = 40 => total = 96 /\ U.args[2].v = 56

\* An entry that begins with an alloca of 40 bytes and one of a multiple of 32:
\* 96 bytes with a redzone of 56, and 96 bytes with a redzone of 32.
C15_Witness ==
  /\ fpc = "walk"
  /\ entryAllocas = <<40, 64>>
  /\ LocalDtors.list[1].args[2] = Const32(56)
  /\ LocalDtors.list[2].args[2] = Const32(32)
  /\ \E a \in 1..Len(Nodes[1]) :
       /\ ~Nodes[1][a].deleted
       /\ Nodes[1][a].kind = "alloca"
       /\ Nodes[1][a].dest = Var(1)
       /\ Nodes[1][a].args = <<Const32(96)>>

\* What one visit of a call does to the instruction lists.
C16_CallStep ==
  LET n == Context.node
      c == Context.cur
      old == Nodes[n]
      new == Nodes'[n]
      I == old[c]
  IN (fpc = "walk" /\ ~AtEnd /\ old[c].kind = "call") =>
       /\ Len(Nodes') = Len(Nodes)
       /\ \A m \in 1..Len(Nodes) : m # n => Nodes'[m] = Nodes[m]
       /\ IF I.direct /\ I.target \in {"malloc", "free"}
            THEN /\ Len(new) = Len(old) + 1
                 /\ new[c] = [I EXCEPT !.deleted = TRUE]
                 /\ \E p \in (c + 1)..Len(new) :
                      /\ \A j \in 1..Len(old) :
                           j # c => new[IF j < p THEN j ELSE j + 1] = old[j]
                      /\ new[p].kind = "call"
                      /\ new[p].direct
                      /\ ~new[p].deleted
                      /\ new[p].target = IF I.target = "malloc"
                                           THEN "__asan_malloc" ELSE "__asan_free"
                      /\ new[p].dest = I.dest
                      /\ new[p].args = I.args
                      /\ new[p].tail = I.tail
            ELSE Nodes' = Nodes

\* C16: the visit of a call whose target is the relocatable symbol malloc or
\* free marks the call deleted and adds, behind it, one call to __asan_malloc
\* or __asan_free with the same destination, the same arguments in the same
\* order and the same tail-call flag, every other instruction staying as it
\* was; the visit of any other call, of a variable or of another name, changes
\* no instruction list.
C16_SubstituteMallocFree == [][C16_CallStep]_vars

\* A tail call to free was replaced: the original is deleted and the next
\* instruction is a live tail call to __asan_free with the same argument.
C16_Witness ==
  /\ fpc \in {"walk", "finish"}
  /\ \E c \in 1..(Len(Nodes[1]) - 1) :
       /\ Nodes[1][c].kind = "call"
       /\ Nodes[1][c].target = "free"
       /\ Nodes[1][c].deleted
       /\ Nodes[1][c].tail
       /\ Nodes[1][c + 1].kind = "call"
       /\ Nodes[1][c + 1].target = "__asan_free"
       /\ ~Nodes[1][c + 1].deleted
       /\ Nodes[1][c + 1].tail
       /\ Nodes[1][c + 1].args = Nodes[1][c].args

\* I is a live call __asan_check(addr, n) for the access Acc.
IsCheckOf(I, Acc) ==
  LET W == [i8 |-> 1, i16 |-> 2, i32 |-> 4, i64 |-> 8, v4i32 |-> 16]
  IN /\ I.kind = "call"
     /\ I.target = "__asan_check"
     /\ I.direct
     /\ ~I.deleted
     /\ ~I.tail
     /\ I.dest = NoOperand
     /\ I.args = <<IF Acc.kind = "load" THEN Acc.args[1] ELSE Acc.args[2],
                   Const32(W[Acc.ty])>>

\* What one visit of a load or a store does.
C17_AccessStep ==
  LET n == Context.node
      c == Context.cur
      old == Nodes[n]
      new == Nodes'[n]
  IN (fpc = "walk" /\ ~AtEnd /\ old[c].kind \in {"load", "store"}) =>
       /\ Len(Nodes') = Len(Nodes)
       /\ \A m \in 1..Len(Nodes) : m # n => Nodes'[m] = Nodes[m]
       /\ Len(new) = Len(old) + 1
       /\ \A j \in 1..(c - 1) : new[j] = old[j]
       /\ \A j \in c..Len(old) : new[j + 1] = old[j]
       /\ IsCheckOf(new[c], old[c])
       /\ Context'.node = n
       /\ Context'.cur = Context.next + 1

\* After the walk every load and store stands directly behind its check, and
\* a node has as many checks as accesses.
C17_Once ==
  Walked =>
    \A n \in 1..Len(Nodes) :
      LET list == Nodes[n]
          accesses == { i \in 1..Len(list) : list[i].kind \in {"load", "store"} }
          checks == { i \in 1..Len(list) :
                        list[i].kind = "call" /\ list[i].target = "__asan_check" }
      IN /\ \A i \in accesses : i > 1 /\ IsCheckOf(list[i - 1], list[i])
         /\ Cardinality(checks) = Cardinality(accesses)

\* C17: the visit of a load or a store inserts one call __asan_check(addr, n)
\* directly in front of it, addr being the load's source address or the
\* store's address and n the width in bytes of the loaded destination's or the
\* stored data's type, and changes nothing else; the walk goes on at the
\* instruction that was Next, so the call is not visited; and after the walk
\* every access has exactly its one check.
C17_CheckBeforeAccess == [][C17_AccessStep]_vars /\ []C17_Once

\* A walked function whose entry has an i64 load behind a check of 8 bytes and
\* whose second node has an i32 store behind a check of 4 bytes.
C17_Witness ==
  /\ fpc = "finish"
  /\ Len(Nodes) >= 2
  /\ \E i \in 2..Len(Nodes[1]) :
       /\ Nodes[1][i].kind = "load"
       /\ Nodes[1][i].ty = "i64"
       /\ Nodes[1][i - 1].target = "__asan_check"
       /\ Nodes[1][i - 1].args = <<Nodes[1][i].args[1], Const32(8)>>
  /\ \E i \in 2..Len(Nodes[2]) :
       /\ Nodes[2][i].kind = "store"
       /\ Nodes[2][i - 1].target = "__asan_check"
       /\ Nodes[2][i - 1].args = <<Nodes[2][i].args[2], Const32(4)>>

-----------------------------------------------------------------------------
(* TargetARM32::translateO2 and TargetARM32::translateOm1 *)

\* One entry of a pipeline: the pass, whether "if (Func->hasError()) return;"
\* follows it, and the flag condition it stands under.
P(pass, check, cond) == [pass |-> pass, check |-> check, cond |-> cond]

PipelineO2 ==
  << P("placePhiLoads", TRUE, "noPhiEdgeSplit"),
     P("placePhiStores", TRUE, "noPhiEdgeSplit"),
     P("deletePhis", TRUE, "noPhiEdgeSplit"),
     P("doAddressOpt", FALSE, "always"),
     P("doArgLowering", FALSE, "always"),
     P("renumberInstructions", TRUE, "always"),
     P("liveness", TRUE, "always"),
     P("genCode", TRUE, "always"),
     P("renumberInstructions", TRUE, "always"),
     P("liveness", TRUE, "always"),
     P("regAlloc", TRUE, "always"),
     P("advancedPhiLowering", FALSE, "phiEdgeSplit"),
     P("genFrame", TRUE, "always"),
     P("contractEmptyNodes", FALSE, "always"),
     P("reorderNodes", FALSE, "always"),
     P("doBranchOpt", FALSE, "always"),
     P("doNopInsertion", FALSE, "nopInsertion") >>

PipelineOm1 ==
  << P("placePhiLoads", TRUE, "always"),
     P("placePhiStores", TRUE, "always"),
     P("deletePhis", TRUE, "always"),
     P("doArgLowering", FALSE, "always"),
     P("genCode", TRUE, "always"),
     P("regAlloc", TRUE, "always"),
     P("genFrame", TRUE, "always"),
     P("doNopInsertion", FALSE, "nopInsertion") >>

Pipeline == IF optLevel = "O2" THEN PipelineO2 ELSE PipelineOm1

CondHolds(cond) ==
  CASE cond = "noPhiEdgeSplit" -> ~Flags.PhiEdgeSplit
    [] cond = "phiEdgeSplit" -> Flags.PhiEdgeSplit
    [] cond = "nopInsertion" -> Flags.NopInsertion
    [] OTHER -> TRUE

\* A pipeline that never looks at the error state.
HasErrorReturn_Never(e) == FALSE

\* if (Func->hasError()) return;  follows the pass
HasErrorReturn(e) == e.check

TranslateInit ==
  /\ optLevel \in {"O2", "Om1"}
  /\ Flags \in [PhiEdgeSplit : BOOLEAN, NopInsertion : BOOLEAN]
  /\ ppc = 1
  /\ pst = "run"
  /\ hasError = FALSE
  /\ ran = <<>>

\* The next pass of the pipeline runs, and may leave the function in the error
\* state; the test that follows it in the code, if any, returns.
RunPass ==
  /\ pst = "run"
  /\ ppc <= Len(Pipeline)
  /\ CondHolds(Pipeline[ppc].cond)
  /\ \E fails \in BOOLEAN :
       LET err == hasError \/ fails
       IN /\ hasError' = err
          /\ ran' = Append(ran, [pass |-> Pipeline[ppc].pass, err |-> err])
          /\ IF HasErrorReturn(Pipeline[ppc]) /\ err
               THEN pst' = "returned" /\ ppc' = ppc
               ELSE pst' = "run" /\ ppc' = ppc + 1
  /\ UNCHANGED <<optLevel, Flags, notPipe>>

\* The flag the pass stands under is off.
SkipPass ==
  /\ pst = "run"
  /\ ppc <= Len(Pipeline)
  /\ ~CondHolds(Pipeline[ppc].cond)
  /\ ppc' = ppc + 1
  /\ UNCHANGED <<optLevel, Flags, pst, hasError, ran, notPipe>>

\* The end of the translate function.
TranslateEnd ==
  /\ pst = "run"
  /\ ppc > Len(Pipeline)
  /\ pst' = "returned"
  /\ UNCHANGED <<optLevel, Flags, ppc, hasError, ran, notPipe>>

TranslateNext == RunPass \/ SkipPass \/ TranslateEnd

SpecTranslateInit ==
  ASanIdle /\ FuncIdle /\ TranslateInit /\ LowerIdle /\ CodeIdle /\ FrameIdle

SpecTranslate == SpecTranslateInit /\ [][TranslateNext]_vars

-----------------------------------------------------------------------------
(* 32-bit words, operands and instructions of the ARM32 target *)

\* A 32-bit word is the set of its set bit positions.
Bits(n) == { i \in 0..30 : (n \div (2 ^ i)) % 2 = 1 }
Rotl(w, r) == { (i + r) % 32 : i \in w }
Rotr(w, r) == { (i + 32 - r) % 32 : i \in w }
Not32(w) == (0..31) \ w

\* LSL, LSR and ASR of a word by amt positions.
ShiftW(kind, w, amt) ==
  CASE kind = "LSL" -> { i + amt : i \in { j \in w : j + amt <= 31 } }
    [] kind = "LSR" -> { i - amt : i \in { j \in w : j >= amt } }
    [] kind = "ASR" -> { i - amt : i \in { j \in w : j >= amt } }
                         \cup (IF 31 \in w THEN { i \in 0..31 : i >= 32 - amt }
                               ELSE {})
    [] OTHER -> w

\* AddWithCarry(x, y, carry_in): the sum and the flags it would set.  The carry
\* into bit i comes from carry_in or from a lower bit set in both words, through
\* bits set in either.
AddWithCarry(x, y, cin) ==
  LET G == x \cap y
      Pr == x \cup y
      CarryIn(i) == \/ cin /\ (0..(i - 1)) \subseteq Pr
                    \/ \E j \in G : j < i /\ ((j + 1)..(i - 1)) \subseteq Pr
      sum == { i \in 0..31 : ((i \in x) # (i \in y)) # CarryIn(i) }
  IN [result |-> sum, N |-> 31 \in sum, Z |-> sum = {},
      C |-> CarryIn(32), V |-> CarryIn(32) # CarryIn(31)]

NoRegister == -1

\* Operands: a Variable (n its number, reg its register or NoRegister, inf its
\* infinite weight), a ConstantInteger32, an OperandARM32FlexImm (bits its
\* immed8, n its rotate amount), a ConstantRelocatable, undef, or none.
Opnd(k, bits, n, reg, inf) ==
  [k |-> k, bits |-> bits, n |-> n, reg |-> reg, inf |-> inf]
NoOpnd == Opnd("none", {}, 0, NoRegister, FALSE)
ConstInt(w) == Opnd("const", w, 0, NoRegister, FALSE)
FlexImm(immed8, rot) == Opnd("flex", immed8, rot, NoRegister, FALSE)

\* makeReg: a fresh Variable, of infinite weight when no register is asked
\* for, pre-colored otherwise.
makeReg(n, RegNum) == Opnd("var", {}, n, RegNum, RegNum = NoRegister)

\* A target instruction.
Arm(op, dest, srcs) ==
  [op |-> op, dest |-> dest, srcs |-> srcs, deleted |-> FALSE]

\* OperandARM32FlexImm::canHoldImm: the first even rotation that brings the
\* value into the low eight bits.
canHoldImm(w) ==
  LET rs == { r \in { 2 * h : h \in 0..15 } : Rotl(w, r) \subseteq 0..7 }
      r0 == CHOOSE r \in rs : \A o \in rs : r <= o
  IN IF rs = {} THEN [ok |-> FALSE, immed8 |-> {}, rot |-> 0]
     ELSE [ok |-> TRUE, immed8 |-> Rotl(w, r0), rot |-> r0]

-----------------------------------------------------------------------------
(* TargetARM32::legalize *)

\* A movw that always takes the whole constant.
MovwOperand_Whole(Value, UpperBits) == Value

\* UpperBits != 0 ? Ctx->getConstantInt32(Value & 0xFFFF) : C32
MovwOperand(Value, UpperBits) ==
  IF UpperBits # {} THEN Value \cap (0..15) ELSE Value

\* OperandARM32Mem: base and index are Variables (index NoOpnd in the
\* reg + imm form, whose offset is bits), with the index's shift and the
\* addressing mode.
MemOp(Base, Index, Offset, ShiftOp, ShiftAmt, Mode) ==
  [k |-> "mem", bits |-> Offset, n |-> 0, reg |-> NoRegister, inf |-> FALSE,
   base |-> Base, index |-> Index, shift |-> ShiftOp, amt |-> ShiftAmt,
   mode |-> Mode]

\* OperandARM32FlexReg: a register, shifted by an immediate amount or not.
FlexReg(Reg, ShiftOp, ShiftAmt) ==
  [k |-> "flexreg", bits |-> {}, n |-> 0, reg |-> NoRegister, inf |-> FALSE,
   base |-> Reg, shift |-> ShiftOp, amt |-> ShiftAmt]

\* OperandARM32FlexReg whose shift amount is a register.
FlexRegBy(Reg, ShiftOp, ShiftAmt) ==
  [k |-> "flexreg", bits |-> {}, n |-> 0, reg |-> NoRegister, inf |-> FALSE,
   base |-> Reg, shift |-> ShiftOp, amt |-> 0, by |-> ShiftAmt]

\* A variable is copied only when it is not guaranteed a register and Mem is
\* not allowed.
NeedsCopy_IgnoreRegNum(V, Allowed, RegNum) ==
  "Mem" \notin Allowed /\ ~(V.reg # NoRegister \/ V.inf)

\* legalize's test on a Variable: a new physical register is needed if Mem is
\* not allowed and Var isn't guaranteed one, or RegNum is required and
\* Var->getRegNum() doesn't match.
NeedsCopy(V, Allowed, RegNum) ==
  LET MustHaveRegister == V.reg # NoRegister \/ V.inf
  IN \/ ("Mem" \notin Allowed /\ ~MustHaveRegister)
     \/ (RegNum # NoRegister /\ RegNum # V.reg)

\* legalize(From, Allowed, RegNum) with nVar variables made so far: the operand
\* returned, the instructions inserted, the variables made.
RECURSIVE legalize(_, _, _, _)
legalize(From, Allowed, RegNum, nVar) ==
  LET Reg == makeReg(nVar + 1, RegNum)
      Ret(op, insts) ==
        [op |-> op, insts |-> insts,
         nVar |-> IF insts = <<>> THEN nVar ELSE nVar + 1]
      \* undef is lowered to zero; a FlexReg without shift that may not stay
      \* flexible is looked at as its register
      Src == IF From.k = "undef" THEN ConstInt({})
             ELSE IF From.k = "flexreg" /\ "Flex" \notin Allowed
                     /\ From.shift = "kNoShift" THEN From.base
             ELSE From
      CanBeFlex == "Flex" \in Allowed
      \* the Mem operand with Base and Index in registers, then a load of it
      \* when Mem is not allowed
      Loaded(Mem, insts, n) ==
        IF "Mem" \notin Allowed
          THEN [op |-> makeReg(n + 1, RegNum),
                insts |-> Append(insts, Arm("ldr", makeReg(n + 1, RegNum), <<Mem>>)),
                nVar |-> n + 1]
          ELSE [op |-> Mem, insts |-> insts, nVar |-> n]
      WithIndex(B, X) ==
        Loaded([Src EXCEPT !.base = B.op, !.index = X.op], B.insts \o X.insts, X.nVar)
      WithBase(B) ==
        WithIndex(B, IF Src.index = NoOpnd
                       THEN [op |-> NoOpnd, insts |-> <<>>, nVar |-> B.nVar]
                       ELSE legalize(Src.index, {"Reg"}, NoRegister, B.nVar))
  IN CASE Src.k = "mem" ->
            WithBase(legalize(Src.base, {"Reg"}, NoRegister, nVar))
       [] Src.k \in {"flex", "flexreg"} ->
            IF ~CanBeFlex THEN Ret(Reg, <<Arm("mov", Reg, <<Src>>)>>)
            ELSE Ret(Src, <<>>)
       [] Src.k = "const" ->
            LET Value == Src.bits
                fits == canHoldImm(Value)
                inv == canHoldImm(Not32(Value))
                UpperBits == { i - 16 : i \in Value \cap (16..31) }
            IN IF CanBeFlex /\ fits.ok
                 THEN Ret(FlexImm(fits.immed8, fits.rot), <<>>)
               ELSE IF CanBeFlex /\ inv.ok
                 THEN Ret(Reg, <<Arm("mvn", Reg, <<FlexImm(inv.immed8, inv.rot)>>)>>)
               ELSE Ret(Reg,
                        <<Arm("movw", Reg, <<ConstInt(MovwOperand(Value, UpperBits))>>)>>
                        \o IF UpperBits # {}
                             THEN <<Arm("movt", Reg, <<ConstInt(UpperBits)>>)>>
                             ELSE <<>>)
       [] Src.k = "reloc" ->
            Ret(Reg, <<Arm("movw", Reg, <<Src>>), Arm("movt", Reg, <<Src>>)>>)
       [] OTHER ->
            \* a Variable
            IF NeedsCopy(Src, Allowed, RegNum)
              THEN Ret(Reg, <<Arm("mov", Reg, <<Src>>)>>)
              ELSE Ret(Src, <<>>)

\* The constants tried: seeds, their rotations and their complements.
WordSeeds == {0, 1, 255, 256, 257, 510, 1020, 22136, 65280, 65535, 65536,
              305397760, 305419896}
Words ==
  UNION { { Rotr(Bits(n), r), Not32(Rotr(Bits(n), r)) } :
          n \in WordSeeds, r \in {0, 1, 2, 8} }

LegalMasks == { {"Reg"}, {"Reg", "Flex"}, {"Reg", "Mem"}, {"Reg", "Flex", "Mem"} }

\* The Variables tried: on the stack, of infinite weight, in r0, in r5.
LegalizeVars ==
  { Opnd("var", {}, 1, r, i) : r \in {NoRegister, 0, 5}, i \in BOOLEAN }

LegalizeInputs ==
  { ConstInt(w) : w \in Words }
    \cup { Opnd("reloc", {}, 0, NoRegister, FALSE), Opnd("undef", {}, 0, NoRegister, FALSE) }
    \cup LegalizeVars
    \cup { MemOp(B, NoOpnd, Bits(8), "kNoShift", 0, m) :
             B \in LegalizeVars, m \in {"Offset", "NegOffset"} }
    \cup { MemOp(B, X, {}, sh[1], sh[2], "Offset") :
             B \in LegalizeVars,
             X \in { Opnd("var", {}, 2, r, FALSE) : r \in {NoRegister, 5} },
             sh \in { <<"kNoShift", 0>>, <<"LSL", 2>> } }
    \cup { FlexImm(Bits(255), 8), FlexImm(Bits(1), 0) }
    \cup { FlexReg(B, sh[1], sh[2]) :
             B \in LegalizeVars, sh \in { <<"kNoShift", 0>>, <<"LSL", 3>> } }

LegalizeInit ==
  /\ lowerIn \in [op : {"legalize"}, From : LegalizeInputs, Allowed : LegalMasks,
                  RegNum : {NoRegister, 0}]
  /\ lowerOut = [done |-> FALSE]

Legalize ==
  /\ lowerIn.op = "legalize"
  /\ ~lowerOut.done
  /\ LET res == legalize(lowerIn.From, lowerIn.Allowed, lowerIn.RegNum, 2)
     IN lowerOut' = [done |-> TRUE, op |-> res.op, insts |-> res.insts,
                     nVar |-> res.nVar]
  /\ UNCHANGED <<lowerIn, notLower>>

SpecLegalizeInit ==
  ASanIdle /\ FuncIdle /\ PipeIdle /\ LegalizeInit /\ CodeIdle /\ FrameIdle

SpecLegalize == SpecLegalizeInit /\ [][Legalize]_vars

\* The value a register holds after the instructions that define it.
RegValue(insts) ==
  CASE insts[1].op = "mvn" -> Not32(Rotr(insts[1].srcs[1].bits, insts[1].srcs[1].n))
    [] Len(insts) = 1 -> insts[1].srcs[1].bits
    [] OTHER -> insts[1].srcs[1].bits \cup { i + 16 : i \in insts[2].srcs[1].bits }

\* C6: legalize of a 32-bit constant v under any allowed mask yields v
\* exactly: a FlexImm (immed8, rotate) with rotate_right(immed8, rotate) = v, or
\* a register set by MVN of a FlexImm that encodes ~v, or a register set by
\* MOVW of v's low 16 bits followed by MOVT of v's high 16 bits when those are
\* nonzero; 0x12345678 gives MOVW #0x5678, MOVT #0x1234.
C6_LegalizeConstExact ==
  (lowerIn.op = "legalize" /\ lowerOut.done /\ lowerIn.From.k = "const") =>
    LET v == lowerIn.From.bits
        I == lowerOut.insts
        hi == { i - 16 : i \in v \cap (16..31) }
    IN /\ \/ /\ lowerOut.op.k = "flex"
             /\ "Flex" \in lowerIn.Allowed
             /\ I = <<>>
             /\ lowerOut.op.bits \subseteq 0..7
             /\ Rotr(lowerOut.op.bits, lowerOut.op.n) = v
          \/ /\ lowerOut.op.k = "var"
             /\ "Flex" \in lowerIn.Allowed
             /\ Len(I) = 1 /\ I[1].op = "mvn" /\ I[1].dest = lowerOut.op
             /\ I[1].srcs[1].k = "flex"
             /\ I[1].srcs[1].bits \subseteq 0..7
             /\ Rotr(I[1].srcs[1].bits, I[1].srcs[1].n) = Not32(v)
             /\ RegValue(I) = v
          \/ /\ lowerOut.op.k = "var"
             /\ Len(I) = (IF hi = {} THEN 1 ELSE 2)
             /\ I[1] = Arm("movw", lowerOut.op, <<ConstInt(v \cap (0..15))>>)
             /\ hi # {} => I[2] = Arm("movt", lowerOut.op, <<ConstInt(hi)>>)
             /\ RegValue(I) = v
       /\ v = Bits(305419896) =>
            /\ I[1].op = "movw" /\ I[1].srcs[1].bits = Bits(22136)
            /\ I[2].op = "movt" /\ I[2].srcs[1].bits = Bits(4660)

\* 0x12345678 legalized with a flexible operand allowed: it fits no FlexImm,
\* nor does its complement, and both halves are moved.
C6_Witness ==
  /\ lowerIn.op = "legalize" /\ lowerOut.done
  /\ lowerIn.From = ConstInt(Bits(305419896))
  /\ "Flex" \in lowerIn.Allowed
  /\ Len(lowerOut.insts) = 2

-----------------------------------------------------------------------------
(* TargetARM32::lowerCall *)

Reg_r0 == 0
Reg_r1 == 1

\* A lowering that puts the register kill directly behind the call and the
\* definition of the high result register after it.
CallTail_KillFirst(ReturnRegHi) ==
  <<Arm("fakekill", NoOpnd, <<>>)>>
  \o IF ReturnRegHi # NoOpnd THEN <<Arm("fakedef", ReturnRegHi, <<>>)>> ELSE <<>>

\* What is inserted behind NewCall: the FakeDef of ReturnRegHi when there is
\* one, then the FakeKill.
CallTail(ReturnRegHi) ==
  (IF ReturnRegHi # NoOpnd THEN <<Arm("fakedef", ReturnRegHi, <<>>)>> ELSE <<>>)
  \o <<Arm("fakekill", NoOpnd, <<>>)>>

\* UnimplementedError aborts unless the SkipUnimplemented flag is set.
\* lowerCall reaches it for a call with arguments and for a floating-point or
\* vector result.
CallUnimplemented(Instr) ==
  \/ Instr.NumArgs > 0
  \/ Instr.DestType \in {"f32", "f64", "v4i32"}

\* lowerCall(Instr) with nVar variables made so far.  Instr.DestType is
\* "nodest" for a call without Dest; Instr.DestLoHi holds the numbers of Dest's
\* lo and hi, zero when Dest is not split.
lowerCall(Instr, nVar, SkipUnimplemented) ==
  IF CallUnimplemented(Instr) /\ ~SkipUnimplemented
    THEN [aborted |-> TRUE, insts |-> <<>>, nVar |-> nVar, lohi |-> Instr.DestLoHi,
          MaybeLeafFunc |-> FALSE]
    ELSE
      LET Ty == Instr.DestType
          Dest == Instr.Dest
          hasLo == Ty \in {"i1", "i8", "i16", "i32", "i64"}
          hasHi == Ty = "i64"
          ReturnReg == IF hasLo THEN makeReg(nVar + 1, Reg_r0) ELSE NoOpnd
          ReturnRegHi == IF hasHi THEN makeReg(nVar + 2, Reg_r1) ELSE NoOpnd
          n1 == nVar + (IF hasLo THEN 1 ELSE 0) + (IF hasHi THEN 1 ELSE 0)
          leg == IF Instr.CallTarget.k = "reloc"
                   THEN [op |-> Instr.CallTarget, insts |-> <<>>, nVar |-> n1]
                   ELSE legalize(Instr.CallTarget, {"Reg"}, NoRegister, n1)
          NewCall == Arm("call", ReturnReg, <<leg.op>>)
          FakeUse == IF Instr.hasSideEffects /\ ReturnReg # NoOpnd
                       THEN <<Arm("fakeuse", NoOpnd, <<ReturnReg>>)>>
                       ELSE <<>>
          \* split64(Dest)
          fresh == hasHi /\ Instr.DestLoHi[1] = 0
          lohi == IF fresh THEN <<leg.nVar + 1, leg.nVar + 2>> ELSE Instr.DestLoHi
          DestLo == Opnd("var", {}, lohi[1], NoRegister, FALSE)
          DestHi == Opnd("var", {}, lohi[2], NoRegister, FALSE)
          Assign == IF Ty = "nodest" \/ ReturnReg = NoOpnd THEN <<>>
                    ELSE IF hasHi
                      THEN <<Arm("mov", DestLo, <<ReturnReg>>),
                             Arm("mov", DestHi, <<ReturnRegHi>>)>>
                    ELSE <<Arm("mov", Dest, <<ReturnReg>>)>>
      IN [aborted |-> FALSE,
          insts |-> leg.insts \o <<NewCall>> \o CallTail(ReturnRegHi)
                      \o FakeUse \o Assign,
          nVar |-> leg.nVar + (IF fresh THEN 2 ELSE 0),
          lohi |-> lohi,
          MaybeLeafFunc |-> FALSE]

CallTargets ==
  { Opnd("reloc", {}, 0, NoRegister, FALSE),
    ConstInt(Bits(4096)), ConstInt(Bits(305419896)),
    Opnd("var", {}, 2, NoRegister, FALSE),
    Opnd("var", {}, 2, NoRegister, TRUE) }

CallInit ==
  /\ lowerIn \in [op : {"call"},
                  DestType : {"nodest", "void", "i1", "i8", "i16", "i32", "i64",
                              "f32", "f64", "v4i32"},
                  Dest : {Opnd("var", {}, 1, NoRegister, FALSE)},
                  DestLoHi : {<<0, 0>>},
                  CallTarget : CallTargets,
                  hasSideEffects : BOOLEAN,
                  NumArgs : {0, 1},
                  SkipUnimplemented : BOOLEAN]
  /\ lowerOut = [done |-> FALSE]

LowerCall ==
  /\ lowerIn.op = "call"
  /\ ~lowerOut.done
  /\ LET res == lowerCall(lowerIn, 2, lowerIn.SkipUnimplemented)
     IN lowerOut' = [done |-> TRUE, aborted |-> res.aborted, insts |-> res.insts,
                     nVar |-> res.nVar, MaybeLeafFunc |-> res.MaybeLeafFunc]
  /\ UNCHANGED <<lowerIn, notLower>>

SpecCallInit == ASanIdle /\ FuncIdle /\ PipeIdle /\ CallInit /\ CodeIdle /\ FrameIdle

SpecCall == SpecCallInit /\ [][LowerCall]_vars

CallsIn(insts) == { c \in 1..Len(insts) : insts[c].op = "call" }

Lowered == lowerIn.op = "call" /\ lowerOut.done /\ ~lowerOut.aborted

\* C5 as stated: whatever the result type, the register kill is the
\* instruction directly behind the call.
C5_AsStated ==
  Lowered =>
    \A c \in CallsIn(lowerOut.insts) :
      c < Len(lowerOut.insts) /\ lowerOut.insts[c + 1].op = "fakekill"

\* C5, amended: lowerCall emits one call and one register kill.  For a call
\* with no result or a result of type void, i1, i8, i16 or i32 the kill is the
\* instruction directly behind the call; for an i64 result exactly one
\* instruction stands between them, the FakeDef of the high result register
\* r1.
C5_KillFollowsCall ==
  Lowered =>
    LET I == lowerOut.insts
        kills == { j \in 1..Len(I) : I[j].op = "fakekill" }
    IN /\ Cardinality(CallsIn(I)) = 1
       /\ Cardinality(kills) = 1
       /\ \A c \in CallsIn(I) :
            IF lowerIn.DestType = "i64"
              THEN /\ c + 2 \in kills
                   /\ I[c + 1].op = "fakedef"
                   /\ I[c + 1].dest.reg = Reg_r1
              ELSE c + 1 \in kills

\* A lowered call with an i64 result whose target had to be moved to a
\* register first.
C5_Witness ==
  /\ Lowered
  /\ lowerIn.DestType = "i64"
  /\ lowerIn.hasSideEffects
  /\ lowerIn.CallTarget.k = "const"
  /\ \E c \in CallsIn(lowerOut.insts) :
       /\ c > 1
       /\ lowerOut.insts[c + 2].op = "fakekill"

-----------------------------------------------------------------------------
(* The function's variables; TargetARM32::lowerArguments *)

MaxArgs == 5
MaxOps == 3

ARM32_MAX_GPR_ARG == 4

\* Func->makeVariable(Ty): no register, finite weight, no lo/hi, not an
\* argument.
NewVariable(ty) ==
  [ty |-> ty, reg |-> NoRegister, inf |-> FALSE, lo |-> 0, hi |-> 0,
   isArg |-> FALSE, off |-> 0]

\* The operand that names variable i.
VarOp(vs, i) == Opnd("var", {}, i, vs[i].reg, vs[i].inf)

\* An i64 argument that takes the next free register, even or odd.
StartEven_NoPad(NumGPRRegsUsed) == NumGPRRegsUsed

\* if (NumGPRRegsUsed % 2 != 0) ++NumGPRRegsUsed;
StartEven(NumGPRRegsUsed) ==
  IF NumGPRRegsUsed % 2 # 0 THEN NumGPRRegsUsed + 1 ELSE NumGPRRegsUsed

\* The loop of lowerArguments from argument I on.  st carries Vars, Args,
\* NumGPRRegsUsed (used), the InstAssigns inserted and whether
\* UnimplementedError aborted.
RECURSIVE lowerArguments(_, _, _)
lowerArguments(st, I, SkipUnimplemented) ==
  IF I > Len(st.Args) \/ st.aborted THEN st
  ELSE
    LET Arg == st.Args[I]
        Ty == st.Vars[Arg].ty
        n == Len(st.Vars)
        Home(vs, RegisterArg) ==
          [st EXCEPT !.Vars = [vs EXCEPT ![Arg].isArg = FALSE],
                     !.Args[I] = RegisterArg,
                     !.insts = Append(@, Arm("InstAssign", VarOp(vs, Arg),
                                                 <<VarOp(vs, RegisterArg)>>))]
    IN IF Ty \notin {"i32", "i64"}
         THEN IF SkipUnimplemented
                THEN lowerArguments(st, I + 1, SkipUnimplemented)
                ELSE [st EXCEPT !.aborted = TRUE]
       ELSE IF st.used >= ARM32_MAX_GPR_ARG
         THEN lowerArguments(st, I + 1, SkipUnimplemented)
       ELSE IF Ty = "i64"
         THEN LET u0 == StartEven(st.used)
                  RegLo == Reg_r0 + u0
                  RegHi == Reg_r0 + u0 + 1
                  RegisterArg == [NewVariable("i64") EXCEPT
                                    !.lo = n + 2, !.hi = n + 3, !.isArg = TRUE]
                  RegisterLo == [NewVariable("i32") EXCEPT !.reg = RegLo, !.isArg = TRUE]
                  RegisterHi == [NewVariable("i32") EXCEPT !.reg = RegHi, !.isArg = TRUE]
                  vs == st.Vars \o <<RegisterArg, RegisterLo, RegisterHi>>
              IN IF u0 + 2 > ARM32_MAX_GPR_ARG
                   THEN lowerArguments([st EXCEPT !.used = u0 + 2], I + 1,
                                       SkipUnimplemented)
                   ELSE lowerArguments([Home(vs, n + 1) EXCEPT !.used = u0 + 2],
                                       I + 1, SkipUnimplemented)
       ELSE LET RegisterArg == [NewVariable("i32") EXCEPT
                                  !.reg = Reg_r0 + st.used, !.isArg = TRUE]
                vs == Append(st.Vars, RegisterArg)
            IN lowerArguments([Home(vs, n + 1) EXCEPT !.used = st.used + 1],
                              I + 1, SkipUnimplemented)

\* A function before argument lowering: its arguments are variables 1..k, then
\* come a local i64 and a local i32; bodies[k] are the node lists it may have.
CodeInitWith(argLists, bodies) ==
  /\ tph = "args"
  /\ tFlags \in [UseSandboxing : BOOLEAN, SkipUnimplemented : BOOLEAN]
  /\ \E tys \in argLists :
       /\ Vars = [i \in 1..Len(tys) |-> [NewVariable(tys[i]) EXCEPT !.isArg = TRUE]]
                   \o <<NewVariable("i64"), NewVariable("i32")>>
       /\ Args = [i \in 1..Len(tys) |-> i]
       /\ tNodes \in bodies[Len(tys)]
  /\ lastOp = [op |-> "none", v |-> 0, n |-> 0]

\* Context.init(Func->getEntryNode()); Context.setInsertPoint(Context.getCur());
\* the InstAssigns go in front of the entry node's first instruction.
LowerArguments ==
  /\ tph = "args"
  /\ LET res == lowerArguments([Vars |-> Vars, Args |-> Args, used |-> 0,
                                insts |-> <<>>, aborted |-> FALSE],
                               1, tFlags.SkipUnimplemented)
         at == SkipDeleted(tNodes[1], 1)
     IN /\ Vars' = res.Vars
        /\ Args' = res.Args
        /\ tNodes' = [tNodes EXCEPT ![1] = CtxInsertAll(@, at, at, res.insts).list]
        /\ tph' = IF res.aborted THEN "aborted" ELSE "lower"
  /\ UNCHANGED <<tFlags, lastOp, notCode>>

-----------------------------------------------------------------------------
(* TargetARM32::split64, loOperand, hiOperand *)

\* A split64 that never finds the variable split already.
AlreadySplit_Never(v) == FALSE

\* if (Lo) { assert(Hi); return; }
AlreadySplit(v) == v.lo # 0

\* split64(V) on the variable list vs.
split64(vs, V) ==
  IF AlreadySplit(vs[V]) THEN vs
  ELSE LET n == Len(vs)
           Sub == [NewVariable("i32") EXCEPT !.isArg = vs[V].isArg]
       IN [vs EXCEPT ![V].lo = n + 1, ![V].hi = n + 2] \o <<Sub, Sub>>

I64Vars == { v \in 1..Len(Vars) : Vars[v].ty = "i64" }

Split64 ==
  /\ tph = "lower"
  /\ lastOp.n < MaxOps
  /\ \E v \in I64Vars :
       /\ Vars' = split64(Vars, v)
       /\ lastOp' = [op |-> "split64", v |-> v, n |-> lastOp.n + 1]
  /\ UNCHANGED <<tph, tFlags, Args, tNodes, notCode>>

\* loOperand / hiOperand of a Variable: split64(Var), then Var->getLo() or
\* Var->getHi().
LoHiOperand ==
  /\ tph = "lower"
  /\ lastOp.n < MaxOps
  /\ \E v \in I64Vars, which \in {"loOperand", "hiOperand"} :
       /\ Vars' = split64(Vars, v)
       /\ lastOp' = [op |-> which, v |-> v, n |-> lastOp.n + 1]
  /\ UNCHANGED <<tph, tFlags, Args, tNodes, notCode>>

\* What the last loOperand / hiOperand returned.
Returned == IF lastOp.op = "loOperand" THEN Vars[lastOp.v].lo ELSE Vars[lastOp.v].hi

ArgLists ==
  SeqsUpTo({"i32", "i64"}, MaxArgs)
    \cup { <<"f32", "i32">>, <<"i32", "f32", "i64", "i64">> }

\* One node that returns nothing.
JustRet == { << <<Arm("InstRet", NoOpnd, <<>>)>> >> }

ArgsNext == LowerArguments \/ Split64 \/ LoHiOperand

SpecArgsInit ==
  ASanIdle /\ FuncIdle /\ PipeIdle /\ LowerIdle /\ CodeInitWith(ArgLists, [k \in 0..MaxArgs |-> JustRet])
    /\ FrameIdle

SpecArgs == SpecArgsInit /\ [][ArgsNext]_vars

\* The home registers argument I was given, in lo, hi order for an i64.
HomeRegs(I) ==
  LET R == Args[I]
  IN IF R = I THEN <<>>
     ELSE IF Vars[R].ty = "i64" THEN <<Vars[Vars[R].lo].reg, Vars[Vars[R].hi].reg>>
     ELSE <<Vars[R].reg>>

ArgsLowered == tph = "lower" /\ \A I \in 1..Len(Args) : Vars[I].ty \in {"i32", "i64"}

\* C8: for a list of i32 and i64 arguments lowerArguments hands out home
\* registers from r0..r3 only, strictly increasing along the argument list and
\* never twice; an i64 gets an even/odd pair r0:r1 or r2:r3, lo in the even
\* register and hi in the next; once an argument gets no register, no later
\* argument gets one.
C8_HomeRegisters ==
  ArgsLowered =>
    /\ \A I \in 1..Len(Args) :
         LET h == HomeRegs(I)
         IN /\ \A j \in 1..Len(h) : h[j] \in 0..(ARM32_MAX_GPR_ARG - 1)
            /\ Vars[I].ty = "i64" /\ h # <<>> =>
                 Len(h) = 2 /\ h[1] % 2 = 0 /\ h[2] = h[1] + 1
            /\ Vars[I].ty = "i32" /\ h # <<>> => Len(h) = 1
    /\ \A I, J \in 1..Len(Args) :
         I < J =>
           /\ \A a \in 1..Len(HomeRegs(I)), b \in 1..Len(HomeRegs(J)) :
                HomeRegs(I)[a] < HomeRegs(J)[b]
           /\ HomeRegs(I) = <<>> => HomeRegs(J) = <<>>

\* (i32, i32, i32, i64, i32): the i64 finds only r3 left and gets nothing, and
\* the i32 behind it gets nothing either.
C8_Witness ==
  /\ ArgsLowered
  /\ Len(Args) = 5
  /\ [I \in 1..5 |-> Vars[I].ty] = <<"i32", "i32", "i32", "i64", "i32">>
  /\ HomeRegs(3) = <<2>>
  /\ HomeRegs(4) = <<>>
  /\ HomeRegs(5) = <<>>

LoHiSound ==
  /\ \A v \in 1..Len(Vars) :
       /\ (Vars[v].lo = 0) <=> (Vars[v].hi = 0)
       /\ Vars[v].lo # 0 =>
            /\ Vars[v].ty = "i64"
            /\ Vars[v].lo # Vars[v].hi
            /\ {Vars[v].lo, Vars[v].hi} \subseteq 1..Len(Vars)
            /\ Vars[Vars[v].lo].ty = "i32" /\ Vars[Vars[v].hi].ty = "i32"
  /\ \A v, w \in 1..Len(Vars) :
       (v # w /\ Vars[v].lo # 0 /\ Vars[w].lo # 0) =>
         {Vars[v].lo, Vars[v].hi} \cap {Vars[w].lo, Vars[w].hi} = {}

LoHiStable ==
  /\ \A v \in 1..Len(Vars) :
       Vars[v].lo # 0 =>
         /\ v <= Len(Vars')
         /\ Vars'[v].lo = Vars[v].lo
         /\ Vars'[v].hi = Vars[v].hi
  /\ (lastOp'.n # lastOp.n /\ Vars[lastOp'.v].lo # 0) => Vars' = Vars

\* C10: through argument lowering and any sequence of split64, loOperand and
\* hiOperand every i64 variable has both lo and hi or neither, lo and hi are
\* two different i32 variables, no sub-variable belongs to two i64 variables,
\* and a pair once set never changes: an operation on a variable split before
\* leaves the variable list as it is.
C10_SplitInvariant == [](LoHiSound) /\ [][LoHiStable]_vars

\* Three operations on the one i64 local of a function without arguments made
\* one pair of sub-variables.
C10_Witness ==
  /\ tph = "lower"
  /\ Args = <<>>
  /\ lastOp.n = MaxOps
  /\ Len(Vars) = 4
  /\ Vars[1].lo = 3 /\ Vars[1].hi = 4

-----------------------------------------------------------------------------
(* genCode: the lowering of one function's instructions *)

ARM32_STACK_ALIGNMENT_BYTES == 16

\* RegARM32: the register numbers that have a role of their own; preserved are
\* the registers the table marks callee-saved (r4 to r11).
RegARM32 == [fp |-> 11, ip |-> 12, sp |-> 13, lr |-> 14, preserved |-> 4..11]

\* legalize's default mask
Legal_Default == {"Reg", "Flex", "Mem"}

\* getPhysicalRegister: the Variable that stands for a register.  It is cached
\* per register; its number in the function's variable list is left out.
PhysReg(r) == Opnd("var", {}, 0, r, FALSE)

\* The number a word stands for (below 2^31).
RECURSIVE Val(_)
Val(w) == IF w = {} THEN 0
          ELSE LET i == CHOOSE i \in w : TRUE IN 2 ^ i + Val(w \ {i})

\* Utils::applyAlignment for a power-of-two alignment
applyAlignment(Value, Align) == Value + OffsetToAlignment(Value, Align)

\* A stack alignment of 8 bytes.
applyStackAlignment_To8(Value) == applyAlignment(Value, 8)

applyStackAlignment(Value) == applyAlignment(Value, ARM32_STACK_ALIGNMENT_BYTES)

\* What a handler has done so far: the function's variables, the instructions
\* inserted, the operand legalize returned last (op), an operand kept for later
\* (t), whether UnimplementedError aborted, the operands kept in order (kept)
\* whether Func->setError was called, whether MaybeLeafFunc is left alone, and
\* whether the condition of an assert was false (asserted).
Lowering(vs) ==
  [Vars |-> vs, insts |-> <<>>, op |-> NoOpnd, t |-> NoOpnd, aborted |-> FALSE,
   kept |-> <<>>, error |-> FALSE, MaybeLeafFunc |-> TRUE, asserted |-> FALSE]

\* Context.insert(I)
Emit(b, I) == [b EXCEPT !.insts = Append(@, I)]

\* makeReg(IceType_i32, RegNum): a new variable, of infinite weight when no
\* register is named; op is its operand.
makeRegIn(b, RegNum) ==
  [b EXCEPT !.Vars = Append(@, [NewVariable("i32") EXCEPT
                                  !.reg = RegNum, !.inf = (RegNum = NoRegister)]),
            !.op = makeReg(Len(b.Vars) + 1, RegNum)]

\* legalize(From, Allowed, RegNum) inside a handler.
legalizeIn(b, From, Allowed, RegNum) ==
  LET Made(r, i) ==
        LET j == CHOOSE j \in 1..Len(r.insts) : r.insts[j].dest.n = i
        IN [NewVariable("i32") EXCEPT !.reg = r.insts[j].dest.reg,
                                      !.inf = r.insts[j].dest.inf]
      Got(r) ==
        [b EXCEPT !.Vars = @ \o [k \in 1..(r.nVar - Len(b.Vars)) |->
                                   Made(r, Len(b.Vars) + k)],
                  !.insts = @ \o r.insts,
                  !.op = r.op]
  IN Got(legalize(From, Allowed, RegNum, Len(b.Vars)))

\* alignRegisterPow2(Reg, Align)
alignRegisterPow2(b, Reg, Align) ==
  LET Masked(m, opc) == Emit(m, Arm(opc, Reg, <<Reg, m.op>>))
  IN IF canHoldImm(Bits(Align - 1)).ok
       THEN Masked(legalizeIn(b, ConstInt(Bits(Align - 1)), {"Reg", "Flex"},
                              NoRegister), "bic")
       ELSE Masked(legalizeIn(b, ConstInt(Not32(Bits(Align - 1))), {"Reg", "Flex"},
                              NoRegister), "and")

\* An alloca aligned to what the instruction asks for and no more.
AllocaAlignment_AsAsked(AlignmentParam) == Max(AlignmentParam, 1)

\* AlignmentParam = std::max(AlignmentParam, 1u);
\* Alignment = std::max(AlignmentParam, ARM32_STACK_ALIGNMENT_BYTES);
AllocaAlignment(AlignmentParam) ==
  Max(Max(AlignmentParam, 1), ARM32_STACK_ALIGNMENT_BYTES)

\* lowerAlloca(Inst): Inst.srcs holds the size operand and the alignment.
lowerAlloca(Inst, vs) ==
  LET SP == PhysReg(RegARM32.sp)
      Pre(b, Alignment) ==
        IF Alignment > ARM32_STACK_ALIGNMENT_BYTES
          THEN alignRegisterPow2(b, SP, Alignment) ELSE b
      SubSP(b, by) == Emit(b, Arm("sub", SP, <<SP, by>>))
      Const(b, Alignment) ==
        LET Value == applyAlignment(Val(Inst.srcs[1].bits), Alignment)
            Sub(m) == SubSP(m, m.op)
        IN Sub(legalizeIn(b, ConstInt(Bits(Value)), Legal_Default, NoRegister))
      MovT(b) ==
        LET Mov(m) == [Emit(m, Arm("mov", m.op, <<b.op>>)) EXCEPT !.t = m.op]
        IN Mov(makeRegIn(b, NoRegister))
      AddT(b) == Emit(b, Arm("add", b.t, <<b.t, b.op>>))
      AlignT(b, Alignment) == alignRegisterPow2(b, b.t, Alignment)
      SubT(b) == SubSP(b, b.t)
      Dyn(b, Alignment) ==
        SubT(AlignT(AddT(legalizeIn(
          MovT(legalizeIn(b, Inst.srcs[1], Legal_Default, NoRegister)),
          ConstInt(Bits(Alignment - 1)), Legal_Default, NoRegister)), Alignment))
      Body(b, Alignment) ==
        IF Inst.srcs[1].k = "const" THEN Const(b, Alignment) ELSE Dyn(b, Alignment)
      With(Alignment) ==
        Emit(Body(Pre(Lowering(vs), Alignment), Alignment),
             Arm("mov", Inst.dest, <<SP>>))
  IN With(AllocaAlignment(Val(Inst.srcs[2].bits)))

\* lowerRet(Inst): no value, an i32 value or an i64 value.
lowerRet(Inst, vs) ==
  LET LR == PhysReg(RegARM32.lr)
      SP == PhysReg(RegARM32.sp)
      Ret(b, Reg) == Emit(Emit(b, Arm("ret", NoOpnd, <<LR>> \o Reg)),
                          Arm("fakeuse", NoOpnd, <<SP>>))
      Keep(m) == [m EXCEPT !.t = m.op]
      Lo(b, V) == Keep(legalizeIn(b, VarOp(b.Vars, b.Vars[V].lo), {"Reg"}, Reg_r0))
      Hi(b, V) == legalizeIn(b, VarOp(b.Vars, b.Vars[V].hi), {"Reg"}, Reg_r1)
      Wide(b) == Ret(Emit(b, Arm("fakeuse", NoOpnd, <<b.op>>)), <<b.t>>)
      MovR0(b) ==
        LET Mov(m) == Ret(Emit(m, Arm("mov", m.op, <<b.op>>)), <<m.op>>)
        IN Mov(makeRegIn(b, Reg_r0))
  IN IF Inst.srcs = <<>>
       THEN Ret(Lowering(vs), <<>>)
     ELSE IF vs[Inst.srcs[1].n].ty = "i64"
       THEN Wide(Hi(Lo(Lowering(split64(vs, Inst.srcs[1].n)), Inst.srcs[1].n),
                    Inst.srcs[1].n))
     ELSE MovR0(legalizeIn(Lowering(vs), Inst.srcs[1], {"Reg", "Flex"}, NoRegister))

\* lowerBr(Inst): Inst.srcs is the target, or the condition and the two
\* targets.
lowerBr(Inst, vs) ==
  LET Cmp(b) == Emit(Emit(b, Arm("cmp", NoOpnd, <<b.op, ConstInt({})>>)),
                     Arm("bne", NoOpnd, Tail(Inst.srcs)))
  IN IF Len(Inst.srcs) = 1
       THEN Emit(Lowering(vs), Arm("b", NoOpnd, Inst.srcs))
       ELSE Cmp(legalizeIn(Lowering(vs), Inst.srcs[1], {"Reg"}, NoRegister))

\* lowerCall(Instr) on the variable list: the variables lowerCall made are
\* those its instructions define.
lowerCallIn(Inst, vs, SkipUnimplemented) ==
  LET d == Inst.dest.n
      Ty == IF Inst.dest = NoOpnd THEN "nodest" ELSE vs[d].ty
      Made(res, i) ==
        IF \E j \in 1..Len(res.insts) : res.insts[j].dest.k = "var"
                                          /\ res.insts[j].dest.n = i
          THEN LET j == CHOOSE j \in 1..Len(res.insts) :
                          res.insts[j].dest.k = "var" /\ res.insts[j].dest.n = i
               IN [NewVariable("i32") EXCEPT !.reg = res.insts[j].dest.reg,
                                             !.inf = res.insts[j].dest.inf]
          ELSE NewVariable("i32")
      All(res) == [i \in 1..res.nVar |-> IF i <= Len(vs) THEN vs[i] ELSE Made(res, i)]
      Got(res) ==
        [Lowering(IF Ty = "i64" /\ ~res.aborted
                    THEN [All(res) EXCEPT ![d].lo = res.lohi[1], ![d].hi = res.lohi[2]]
                    ELSE All(res))
           EXCEPT !.insts = res.insts, !.aborted = res.aborted,
                  !.MaybeLeafFunc = res.MaybeLeafFunc]
  IN Got(lowerCall([DestType |-> Ty, Dest |-> Inst.dest,
                    DestLoHi |-> IF Ty = "i64" THEN <<vs[d].lo, vs[d].hi>>
                                 ELSE <<0, 0>>,
                    CallTarget |-> Inst.srcs[1], hasSideEffects |-> TRUE,
                    NumArgs |-> Len(Inst.srcs) - 1],
                   Len(vs), SkipUnimplemented))

\* A high-level instruction that carries more than its kind: the arithmetic
\* operator, the comparison's condition or the intrinsic's ID (which).
HighInst(kind, which, dest, srcs) ==
  [op |-> kind, which |-> which, dest |-> dest, srcs |-> srcs, deleted |-> FALSE]

\* A target instruction that runs under a condition.
ArmPred(op, dest, srcs, pred) ==
  [op |-> op, dest |-> dest, srcs |-> srcs, deleted |-> FALSE, pred |-> pred]

\* An UnimplementedError that reports through the function's error flag.
UnimplementedError_SetError(b, SkipUnimplemented) ==
  [b EXCEPT !.aborted = @ \/ ~SkipUnimplemented, !.error = TRUE]

\* UnimplementedError(Flags): llvm_unreachable and abort() unless
\* SkipUnimplemented is set; nothing else is touched.
UnimplementedError(b, SkipUnimplemented) ==
  [b EXCEPT !.aborted = @ \/ ~SkipUnimplemented]

\* The operand is remembered behind those kept before.
Keep(b) == [b EXCEPT !.kept = Append(@, b.op)]

\* loOperand / hiOperand of an i64 Variable already split or of a
\* ConstantInteger64 (bits 0..63).
loOperand(vs, O) ==
  IF O.k = "var" THEN VarOp(vs, vs[O.n].lo) ELSE ConstInt(O.bits \cap (0..31))

hiOperand(vs, O) ==
  IF O.k = "var" THEN VarOp(vs, vs[O.n].hi)
  ELSE ConstInt({ i - 32 : i \in O.bits \cap (32..63) })

\* High words added and subtracted without the carry of the low words.
ArithOpcode_NoCarry ==
  [Add |-> <<"add", "adds", "add">>, Sub |-> <<"sub", "subs", "sub">>,
   And |-> <<"and", "and", "and">>, Or |-> <<"orr", "orr", "orr">>,
   Xor |-> <<"eor", "eor", "eor">>, Shl |-> <<"lsl">>, Lshr |-> <<"lsr">>,
   Ashr |-> <<"asr">>, Mul |-> <<"mul">>]

\* The target instruction of each implemented operator: the scalar one, and
\* for i64 the one on the low words and the one on the high words.
ArithOpcode ==
  [Add |-> <<"add", "adds", "adc">>, Sub |-> <<"sub", "subs", "sbc">>,
   And |-> <<"and", "and", "and">>, Or |-> <<"orr", "orr", "orr">>,
   Xor |-> <<"eor", "eor", "eor">>, Shl |-> <<"lsl">>, Lshr |-> <<"lsr">>,
   Ashr |-> <<"asr">>, Mul |-> <<"mul">>]

\* The operators lowerArithmetic hands to UnimplementedError.
ArithUnimplemented ==
  {"Udiv", "Sdiv", "Urem", "Srem", "Fadd", "Fsub", "Fmul", "Fdiv", "Frem"}

\* An arithmetic right shift whose last ORR always runs.
ShiftPred_Always(IsAshr) == "AL"

\* Pred = CondARM32::PL for Ashr, CondARM32::AL for Lshr
ShiftPred(IsAshr) == IF IsAshr THEN "PL" ELSE "AL"

\* lowerArithmetic(Inst) for the integer operators on i64 and on scalars, the
\* FP operators on scalars, and for a vector Dest.  The operands are legalized
\* and the temporaries made before the operator is looked at.  umull's second
\* destination stands in front of its sources.
lowerArithmetic(Inst, vs, SkipUnimplemented) ==
  LET Dest == Inst.dest
      Src0 == Inst.srcs[1]
      Src1 == Inst.srcs[2]
      Ty == vs[Dest.n].ty
      SplitIf(v, O) == IF O.k = "var" THEN split64(v, O.n) ELSE v
      ToVar(b, O) == Keep(legalizeIn(b, O, {"Reg"}, NoRegister))
      ToFlex(b, O) == Keep(legalizeIn(b, O, {"Reg", "Flex"}, NoRegister))
      MakeT(b, ty) ==
        Keep([makeRegIn(b, NoRegister) EXCEPT !.Vars[Len(b.Vars) + 1].ty = ty])
      \* kept: Src0RLo, Src0RHi, Src1Lo, Src1Hi, T_Lo, T_Hi
      Wide(b) ==
        MakeT(MakeT(ToFlex(ToFlex(ToVar(ToVar(b,
          loOperand(b.Vars, Src0)), hiOperand(b.Vars, Src0)),
          loOperand(b.Vars, Src1)), hiOperand(b.Vars, Src1)), "i32"), "i32")
      Pair(b, opc) ==
        Emit(Emit(Emit(Emit(b,
          Arm(opc[2], b.kept[5], <<b.kept[1], b.kept[3]>>)),
          Arm("mov", VarOp(b.Vars, b.Vars[Dest.n].lo), <<b.kept[5]>>)),
          Arm(opc[3], b.kept[6], <<b.kept[2], b.kept[4]>>)),
          Arm("mov", VarOp(b.Vars, b.Vars[Dest.n].hi), <<b.kept[6]>>))
      \* kept: Src0R, Src1, T
      Scalar(b) == MakeT(ToFlex(ToVar(b, Src0), Src1), Ty)
      One(b, opc) ==
        Emit(Emit(b, Arm(opc[1], b.kept[3], <<b.kept[1], b.kept[2]>>)),
             Arm("mov", Dest, <<b.kept[3]>>))
      Mul(b) ==
        LET Two(m) == Emit(Emit(m, Arm("mul", b.kept[3], <<b.kept[1], m.op>>)),
                           Arm("mov", Dest, <<b.kept[3]>>))
        IN Two(legalizeIn(b, b.kept[2], {"Reg"}, NoRegister))
      Switch(b, Implemented(_)) ==
        IF Inst.which \in ArithUnimplemented
          THEN UnimplementedError(b, SkipUnimplemented)
          ELSE Implemented(b)
      ThirtyTwo == ConstInt(Bits(32))
      \* kept: ..., T_Acc, T_Acc1, T_Hi1, Src1RLo, Src1RHi
      WideMul(b) ==
        LET Ops(m) ==
              Emit(Emit(Emit(Emit(Emit(Emit(m,
                Arm("mul", m.kept[7], <<m.kept[1], m.kept[11]>>)),
                Arm("mla", m.kept[8], <<m.kept[10], m.kept[2], m.kept[7]>>)),
                Arm("umull", m.kept[5], <<m.kept[9], m.kept[1], m.kept[10]>>)),
                Arm("add", m.kept[6], <<m.kept[9], m.kept[8]>>)),
                Arm("mov", VarOp(m.Vars, m.Vars[Dest.n].lo), <<m.kept[5]>>)),
                Arm("mov", VarOp(m.Vars, m.Vars[Dest.n].hi), <<m.kept[6]>>))
            Regs(m) == ToVar(ToVar(m, m.kept[3]), m.kept[4])
        IN Ops(Regs(MakeT(MakeT(MakeT(b, "i32"), "i32"), "i32")))
      \* kept: ..., T_Hi, Src1RLo, T_C1, T_C2, T_Lo
      WideShl(b) ==
        LET Lo(m) ==
              Emit(Emit(m,
                Arm("mov", m.kept[11], <<FlexRegBy(m.kept[1], "LSL", m.kept[8])>>)),
                Arm("mov", VarOp(m.Vars, m.Vars[Dest.n].lo), <<m.kept[11]>>))
            Hi(m) ==
              Emit(Emit(Emit(Emit(Emit(Emit(m,
                Arm("sub", m.kept[9], <<m.kept[8], ThirtyTwo>>)),
                Arm("lsl", m.kept[7], <<m.kept[2], m.kept[8]>>)),
                Arm("orr", m.kept[7],
                    <<m.kept[7], FlexRegBy(m.kept[1], "LSL", m.kept[9])>>)),
                Arm("rsb", m.kept[10], <<m.kept[8], ThirtyTwo>>)),
                Arm("orr", m.kept[7],
                    <<m.kept[7], FlexRegBy(m.kept[1], "LSR", m.kept[10])>>)),
                Arm("mov", VarOp(m.Vars, m.Vars[Dest.n].hi), <<m.kept[7]>>))
            Regs(m) == MakeT(MakeT(ToVar(m, m.kept[3]), "i32"), "i32")
        IN Lo(MakeT(Hi(Regs(MakeT(b, "i32"))), "i32"))
      \* kept: ..., T_Lo, Src1RLo, T_C1, T_C2, T_Hi
      WideShr(b, IsAshr) ==
        LET RShiftKind == IF IsAshr THEN "ASR" ELSE "LSR"
            Hi(m) ==
              Emit(Emit(m,
                Arm("mov", m.kept[11],
                    <<FlexRegBy(m.kept[2], RShiftKind, m.kept[8])>>)),
                Arm("mov", VarOp(m.Vars, m.Vars[Dest.n].hi), <<m.kept[11]>>))
            Lo(m) ==
              Emit(Emit(Emit(Emit(Emit(Emit(m,
                Arm("rsb", m.kept[9], <<m.kept[8], ThirtyTwo>>)),
                Arm("lsr", m.kept[7], <<m.kept[1], m.kept[8]>>)),
                Arm("orr", m.kept[7],
                    <<m.kept[7], FlexRegBy(m.kept[2], "LSL", m.kept[9])>>)),
                Arm(IF IsAshr THEN "subs" ELSE "sub", m.kept[10],
                    <<m.kept[8], ThirtyTwo>>)),
                ArmPred("orr", m.kept[7],
                        <<m.kept[7], FlexRegBy(m.kept[2], RShiftKind, m.kept[10])>>,
                        ShiftPred(IsAshr))),
                Arm("mov", VarOp(m.Vars, m.Vars[Dest.n].lo), <<m.kept[7]>>))
            Regs(m) == MakeT(MakeT(ToVar(m, m.kept[3]), "i32"), "i32")
        IN Hi(MakeT(Lo(Regs(MakeT(b, "i32"))), "i32"))
      WideOp(b) ==
        CASE Inst.which = "Mul" -> WideMul(b)
          [] Inst.which = "Shl" -> WideShl(b)
          [] Inst.which \in {"Lshr", "Ashr"} -> WideShr(b, Inst.which = "Ashr")
          [] OTHER -> Pair(b, ArithOpcode[Inst.which])
      ScalarOp(b) ==
        IF Inst.which = "Mul" THEN Mul(b) ELSE One(b, ArithOpcode[Inst.which])
  IN IF Ty = "i64"
       THEN Switch(Wide(Lowering(SplitIf(SplitIf(split64(vs, Dest.n), Src0), Src1))),
                   WideOp)
     ELSE IF Ty = "v4i32"
       THEN UnimplementedError(Lowering(vs), SkipUnimplemented)
     ELSE Switch(Scalar(Lowering(vs)), ScalarOp)

\* OperandARM32Mem::canHoldOffset(IceType_i32, SignExt = false, Offset): the
\* magnitude of the offset fits the twelve bits of a word load or store.
canHoldOffset(Offset) ==
  IF 31 \in Offset
    THEN AddWithCarry(Not32(Offset), {}, TRUE).result \subseteq 0..11
    ELSE Offset \subseteq 0..11

\* Mem->isRegReg()
isRegReg(Mem) == Mem.index # NoOpnd

\* The offset of the high word taken to be that of the low word.
NextOffsetVal_Same(Offset) == Offset

\* int32_t NextOffsetVal = Offset->getValue() + 4;
NextOffsetVal(Offset) == AddWithCarry(Offset, Bits(4), FALSE).result

\* loOperand(Operand) inside a handler, for the three kinds of i64 operand: a
\* Variable is split and its lo returned, a ConstantInteger64 gives its low
\* word, a memory operand is made again from its own components.
loOperandIn(b, O) ==
  CASE O.k = "var" ->
         [b EXCEPT !.Vars = split64(@, O.n),
                   !.op = VarOp(split64(b.Vars, O.n), split64(b.Vars, O.n)[O.n].lo)]
    [] O.k = "mem" ->
         [b EXCEPT !.op = IF isRegReg(O)
                            THEN MemOp(O.base, O.index, {}, O.shift, O.amt, O.mode)
                            ELSE MemOp(O.base, NoOpnd, O.bits, "kNoShift", 0, O.mode)]
    [] OTHER -> [b EXCEPT !.op = ConstInt(O.bits \cap (0..31))]

\* hiOperand's NewBase for a memory operand: Base + 4 through lowerArithmetic,
\* NewBase taking Base's place in the operand.
hiOperandNewBase(b, O, SkipUnimplemented) ==
  LET vs1 == Append(b.Vars, NewVariable("i32"))
      NewBase == VarOp(vs1, Len(vs1))
      Added(res) ==
        [b EXCEPT !.Vars = res.Vars, !.insts = @ \o res.insts,
                  !.aborted = @ \/ res.aborted,
                  !.op = IF isRegReg(O)
                           THEN MemOp(NewBase, O.index, {}, O.shift, O.amt, O.mode)
                           ELSE MemOp(NewBase, NoOpnd, O.bits, "kNoShift", 0,
                                      O.mode)]
  IN Added(lowerArithmetic(
             HighInst("InstArithmetic", "Add", NewBase,
                      <<O.base, ConstInt(Bits(4))>>),
             vs1, SkipUnimplemented))

\* hiOperand(Operand) inside a handler.  For a memory operand in reg +/- reg
\* form, or whose offset + 4 no load can hold, NewBase := Base + 4 goes
\* through lowerArithmetic and takes Base's place; otherwise the offset grows
\* by 4.
hiOperandIn(b, O, SkipUnimplemented) ==
  CASE O.k = "var" ->
         [b EXCEPT !.Vars = split64(@, O.n),
                   !.op = VarOp(split64(b.Vars, O.n), split64(b.Vars, O.n)[O.n].hi)]
    [] O.k = "mem" ->
         IF isRegReg(O) \/ ~canHoldOffset(NextOffsetVal(O.bits))
           THEN hiOperandNewBase(b, O, SkipUnimplemented)
           ELSE [b EXCEPT !.op = MemOp(O.base, NoOpnd, NextOffsetVal(O.bits),
                                       "kNoShift", 0, O.mode)]
    [] OTHER ->
         [b EXCEPT !.op = ConstInt({ i - 32 : i \in O.bits \cap (32..63) })]

\* legalize(From) of a ConstantInteger64: it is neither a ConstantInteger32
\* nor a ConstantRelocatable, so legalize takes the branch that loads floats
\* and doubles: UnimplementedError, then copyToReg, whose makeReg is asked for
\* a register of type i64 and asserts that no such register exists.
legalizeConst64(b, From, RegNum, SkipUnimplemented) ==
  LET copyToReg(m) ==
        LET Reg == makeReg(Len(m.Vars) + 1, RegNum)
        IN [m EXCEPT !.Vars = Append(@, [NewVariable("i64") EXCEPT
                                          !.reg = RegNum,
                                          !.inf = (RegNum = NoRegister)]),
                     !.asserted = TRUE,
                     !.insts = Append(@, Arm("mov", Reg, <<From>>)),
                     !.op = Reg]
      After(m) == IF m.aborted THEN m ELSE copyToReg(m)
  IN After(UnimplementedError(b, SkipUnimplemented))

\* lowerAssign's source for an i64 Dest: legalize(Inst->getSrc(0)), then
\* loOperand and hiOperand of it.  kept: Src0 as legalized, Src0Lo, Src0Hi.
lowerAssignSrc(b, Src0, SkipUnimplemented) ==
  IF b.aborted THEN b
  ELSE Keep(hiOperandIn(Keep(loOperandIn(b, b.kept[1])), b.kept[1],
                        SkipUnimplemented))

\* lowerAssign(Inst)
lowerAssign(Inst, vs, SkipUnimplemented) ==
  LET Dest == Inst.dest
      Src0 == Inst.srcs[1]
      SplitDest(b) == [b EXCEPT !.Vars = split64(@, Dest.n)]
      Through(b, from, to) ==
        LET Two(m) == Emit(Emit(m, Arm("mov", m.op, <<from>>)),
                           Arm("mov", VarOp(m.Vars, to), <<m.op>>))
        IN Two(makeRegIn(b, NoRegister))
      Lo(b) == Through(b, b.kept[2], b.Vars[Dest.n].lo)
      Hi(b) == Through(b, b.kept[3], b.Vars[Dest.n].hi)
      Wide(b) == IF b.aborted THEN b ELSE Hi(Lo(SplitDest(b)))
      Mov(b) == Emit(b, Arm("mov", Dest, <<b.op>>))
  IN IF vs[Dest.n].ty = "i64"
       THEN Wide(lowerAssignSrc(
                   Keep(IF Src0.k = "const"
                          THEN legalizeConst64(Lowering(vs), Src0, NoRegister,
                                               SkipUnimplemented)
                          ELSE legalizeIn(Lowering(vs), Src0, Legal_Default,
                                          NoRegister)),
                   Src0, SkipUnimplemented))
       ELSE Mov(legalizeIn(Lowering(vs), Src0, {"Reg"}, Dest.reg))

\* ICMPARM32_TABLE, column C_32: the condition of the conditional move for i32
\* and narrower types.
TableIcmp32 ==
  [Eq |-> "EQ", Ne |-> "NE", Ugt |-> "HI", Uge |-> "CS", Ult |-> "CC",
   Ule |-> "LS", Sgt |-> "GT", Sge |-> "GE", Slt |-> "LT", Sle |-> "LE"]

\* ICMPARM32_TABLE, columns is_signed, swapped64, C1_64, C2_64.
TableIcmp64 ==
  LET X(s, w, c1, c2) == [IsSigned |-> s, Swapped |-> w, C1 |-> c1, C2 |-> c2]
  IN [Eq |-> X(FALSE, FALSE, "EQ", "NE"), Ne |-> X(FALSE, FALSE, "NE", "EQ"),
      Ugt |-> X(FALSE, FALSE, "HI", "LS"), Uge |-> X(FALSE, FALSE, "CS", "CC"),
      Ult |-> X(FALSE, FALSE, "CC", "CS"), Ule |-> X(FALSE, FALSE, "LS", "HI"),
      Sgt |-> X(TRUE, TRUE, "LT", "GE"), Sge |-> X(TRUE, FALSE, "GE", "LT"),
      Slt |-> X(TRUE, FALSE, "LT", "GE"), Sle |-> X(TRUE, TRUE, "GE", "LT")]

\* getScalarIntBitWidth
getScalarIntBitWidth(ty) ==
  CASE ty = "i1" -> 1 [] ty = "i8" -> 8 [] ty = "i16" -> 16
    [] ty = "i32" -> 32 [] OTHER -> 64

\* A comparison of narrow operands that shifts nothing.
IcmpShiftAmt_None(ty) == 0

\* int32_t ShiftAmt = 32 - getScalarIntBitWidth(Src0->getType());
IcmpShiftAmt(ty) == 32 - getScalarIntBitWidth(ty)

\* lowerIcmp(Inst): Inst.which is the condition; the operands' type is that of
\* the first operand that is a Variable.
lowerIcmp(Inst, vs, SkipUnimplemented) ==
  LET Dest == Inst.dest
      Src0 == Inst.srcs[1]
      Src1 == Inst.srcs[2]
      Ty0 == IF Src0.k = "var" THEN vs[Src0.n].ty
             ELSE IF Src1.k = "var" THEN vs[Src1.n].ty ELSE "i32"
      Zero == ConstInt({})
      One == ConstInt({0})
      SplitIf(v, O) == IF O.k = "var" THEN split64(v, O.n) ELSE v
      ToVar(b, O) == Keep(legalizeIn(b, O, {"Reg"}, NoRegister))
      ToFlex(b, O) == Keep(legalizeIn(b, O, {"Reg", "Flex"}, NoRegister))
      MakeT(b) == Keep(makeRegIn(b, NoRegister))
      \* kept: Src0Lo, Src0Hi, Src1LoRF, Src1HiRF, T, and ScratchReg if signed
      Wide(b, A, B, row) ==
        LET Regs(m) == IF row.IsSigned THEN MakeT(MakeT(m)) ELSE MakeT(m)
            Cmp(m) ==
              IF row.IsSigned
                THEN Emit(Emit(Emit(m,
                       Arm("cmp", NoOpnd, <<m.kept[1], m.kept[3]>>)),
                       Arm("sbcs", m.kept[6], <<m.kept[2], m.kept[4]>>)),
                       Arm("fakeuse", NoOpnd, <<m.kept[6]>>))
                ELSE Emit(Emit(m,
                       Arm("cmp", NoOpnd, <<m.kept[2], m.kept[4]>>)),
                       ArmPred("cmp", NoOpnd, <<m.kept[1], m.kept[3]>>, "EQ"))
            Movs(m) ==
              Emit(Emit(Emit(m,
                ArmPred("mov", m.kept[5], <<One>>, row.C1)),
                ArmPred("mov_nonkillable", m.kept[5], <<Zero>>, row.C2)),
                Arm("mov", Dest, <<m.kept[5]>>))
        IN Movs(Cmp(Regs(ToFlex(ToFlex(ToVar(ToVar(b,
             loOperand(b.Vars, A)), hiOperand(b.Vars, A)),
             loOperand(b.Vars, B)), hiOperand(b.Vars, B)))))
      \* kept: T, Src0R
      Shifted(b, ShiftAmt) ==
        LET Lsl(m) == Emit(m, Arm("lsl", b.kept[2],
                                  <<m.op, ConstInt(Bits(ShiftAmt))>>))
        IN Lsl(legalizeIn(b, Src0, {"Reg"}, NoRegister))
      Left(b, ShiftAmt) ==
        IF ShiftAmt # 0 THEN Shifted(MakeT(b), ShiftAmt) ELSE ToVar(b, Src0)
      MovZero(b) == Emit(b, Arm("mov", b.kept[1], <<Zero>>))
      Cmp(b, ShiftAmt) ==
        LET Right(m) ==
              Emit(m, Arm("cmp", NoOpnd,
                          <<b.kept[2], IF ShiftAmt # 0
                                         THEN FlexReg(m.op, "LSL", ShiftAmt)
                                         ELSE m.op>>))
        IN Right(legalizeIn(b, Src1, IF ShiftAmt # 0 THEN {"Reg"}
                                     ELSE {"Reg", "Flex"}, NoRegister))
      MovOne(b) ==
        Emit(Emit(b,
          ArmPred("mov_nonkillable", b.kept[1], <<One>>, TableIcmp32[Inst.which])),
          Arm("mov", Dest, <<b.kept[1]>>))
      Narrow(b, ShiftAmt) == MovOne(Cmp(MovZero(Left(MakeT(b), ShiftAmt)), ShiftAmt))
      row64 == TableIcmp64[Inst.which]
  IN IF vs[Dest.n].ty = "v4i32"
       THEN UnimplementedError(Lowering(vs), SkipUnimplemented)
     ELSE IF Ty0 = "i64"
       THEN Wide(Lowering(SplitIf(SplitIf(vs, Src0), Src1)),
                 IF row64.Swapped THEN Src1 ELSE Src0,
                 IF row64.Swapped THEN Src0 ELSE Src1, row64)
     ELSE Narrow(Lowering(vs), IcmpShiftAmt(Ty0))

\* lowerFcmp, lowerSelect, lowerSwitch: UnimplementedError and nothing else.
lowerUnimplemented(Inst, vs, SkipUnimplemented) ==
  UnimplementedError(Lowering(vs), SkipUnimplemented)

\* lowerPhi: Func->setError("Phi found in regular instruction list")
lowerPhi(Inst, vs) == [Lowering(vs) EXCEPT !.error = TRUE]

\* The intrinsics lowerIntrinsicCall hands to UnimplementedError.
IntrinsicsUnimplemented ==
  {"AtomicCmpxchg", "AtomicFence", "AtomicFenceAll", "AtomicIsLockFree",
   "AtomicLoad", "AtomicRMW", "AtomicStore", "Bswap", "Ctpop", "Ctlz", "Cttz",
   "Fabs", "Sqrt", "Stacksave", "Stackrestore", "Trap"}

\* lowerIntrinsicCall(Instr) for the intrinsics above, for Longjmp, Memcpy,
\* Memmove and Setjmp, which become helper calls that take the intrinsic's
\* arguments, and for UnknownIntrinsic.
lowerIntrinsicCall(Inst, vs, SkipUnimplemented) ==
  LET ID == Inst.which
      makeHelperCall(Dest) ==
        Arm("InstCall", Dest, <<Opnd("reloc", {}, 0, NoRegister, FALSE)>> \o Inst.srcs)
  IN CASE ID \in IntrinsicsUnimplemented ->
            UnimplementedError(Lowering(vs), SkipUnimplemented)
       [] ID \in {"Longjmp", "Memcpy", "Memmove"} ->
            lowerCallIn(makeHelperCall(NoOpnd), vs, SkipUnimplemented)
       [] ID = "Setjmp" ->
            lowerCallIn(makeHelperCall(Inst.dest), vs, SkipUnimplemented)
       [] OTHER -> [Lowering(vs) EXCEPT !.error = TRUE]

\* TargetLowering::lower: the handler of the instruction's kind.
lower(Inst, vs, SkipUnimplemented) ==
  CASE Inst.op = "InstAlloca" -> lowerAlloca(Inst, vs)
    [] Inst.op = "InstCall" -> lowerCallIn(Inst, vs, SkipUnimplemented)
    [] Inst.op = "InstRet" -> lowerRet(Inst, vs)
    [] Inst.op = "InstAssign" -> lowerAssign(Inst, vs, SkipUnimplemented)
    [] Inst.op = "InstArithmetic" -> lowerArithmetic(Inst, vs, SkipUnimplemented)
    [] Inst.op = "InstIcmp" -> lowerIcmp(Inst, vs, SkipUnimplemented)
    [] Inst.op \in {"InstFcmp", "InstSelect", "InstSwitch"} ->
         lowerUnimplemented(Inst, vs, SkipUnimplemented)
    [] Inst.op = "InstIntrinsicCall" -> lowerIntrinsicCall(Inst, vs, SkipUnimplemented)
    [] Inst.op = "InstPhi" -> lowerPhi(Inst, vs)
    [] OTHER -> lowerBr(Inst, vs)

\* An alloca lowered without asking for a frame pointer.
AllocaUsesFramePointer_No(Inst) == FALSE

\* lowerAlloca: UsesFramePointer = true;
AllocaUsesFramePointer(Inst) == Inst.op = "InstAlloca"

\* The high-level instructions not lowered yet, as <<node, position>>.
ToLower ==
  UNION { { <<n, i>> : i \in { j \in 1..Len(tNodes[n]) :
                                 /\ tNodes[n][j].op \in {"InstAlloca", "InstCall",
                                                         "InstRet", "InstAssign",
                                                         "InstBr", "InstIntrinsicCall"}
                                 /\ ~tNodes[n][j].deleted } } :
          n \in 1..Len(tNodes) }

\* genCode's step: the first instruction not lowered yet is lowered; what the
\* handler inserts goes behind it and the instruction is deleted.
LowerInst ==
  /\ tph = "lower"
  /\ ToLower # {}
  /\ LET Step(p, Inst, res) ==
           /\ Vars' = res.Vars
           /\ tNodes' = [tNodes EXCEPT
                           ![p[1]] = CtxInsertAll([@ EXCEPT ![p[2]].deleted = TRUE],
                                                  p[2], p[2] + 1, res.insts).list]
           /\ UsesFramePointer' = (UsesFramePointer \/ AllocaUsesFramePointer(Inst))
           /\ NeedsStackAlignment' = (NeedsStackAlignment \/ Inst.op = "InstAlloca")
           /\ MaybeLeafFunc' = (MaybeLeafFunc /\ res.MaybeLeafFunc)
           /\ frameLog' = [frameLog EXCEPT
                             !.allocas = @ + (IF Inst.op = "InstAlloca" THEN 1 ELSE 0)]
           /\ tph' = IF res.aborted THEN "aborted"
                     ELSE IF ToLower = {p} THEN "regalloc" ELSE "lower"
         At(p) == Step(p, tNodes[p[1]][p[2]],
                       lower(tNodes[p[1]][p[2]], Vars, tFlags.SkipUnimplemented))
     IN At(CHOOSE p \in ToLower :
             \A q \in ToLower : p[1] < q[1] \/ (p[1] = q[1] /\ p[2] <= q[2]))
  /\ UNCHANGED <<tFlags, Args, lastOp, SpillAreaSizeBytes, RegsUsed, notFrame>>

-----------------------------------------------------------------------------
(* Register allocation and the frame: addProlog, addEpilog *)

\* regAlloc: every infinite-weight variable gets a register (T), a stack
\* argument may get one (A); the instructions name the variables as they are
\* afterwards.
RegAlloc ==
  /\ tph = "regalloc"
  /\ \E T \in {Reg_r0, 4}, A \in {NoRegister, 5} :
       LET Given(v) == IF v.reg # NoRegister THEN v
                       ELSE IF v.inf THEN [v EXCEPT !.reg = T]
                       ELSE IF v.isArg /\ v.ty = "i32" THEN [v EXCEPT !.reg = A]
                       ELSE v
           Refresh(o) == IF o.k = "var" /\ o.n > 0
                           THEN [o EXCEPT !.reg = Given(Vars[o.n]).reg] ELSE o
       IN /\ Vars' = [i \in 1..Len(Vars) |-> Given(Vars[i])]
          /\ tNodes' = [n \in 1..Len(tNodes) |->
                          [j \in 1..Len(tNodes[n]) |->
                             [tNodes[n][j] EXCEPT
                                !.dest = Refresh(@),
                                !.srcs = [k \in 1..Len(@) |-> Refresh(@[k])]]]]
  /\ tph' = "prolog"
  /\ UNCHANGED <<tFlags, Args, lastOp, frameVars, notFrame>>

\* What getVarStackSlotParams may hand back: the sizes of the globals and the
\* locals spill areas and the two alignments.
SlotParams ==
  { p \in [GlobalsSize : {0, 12}, LocalsSize : {0, 4100},
           SpillAreaAlignmentBytes : {0, 4, 16},
           LocalsSlotsAlignmentBytes : {0, 8}] :
      /\ p.LocalsSlotsAlignmentBytes <= p.SpillAreaAlignmentBytes
      /\ (p.SpillAreaAlignmentBytes = 0) = (p.GlobalsSize + p.LocalsSize = 0) }

\* alignStackSpillAreas
alignStackSpillAreas(SpillAreaStartOffset, SpillAreaAlignmentBytes, GlobalsSize, LocalsSlotsAlignmentBytes) ==
  [SpillAreaPaddingBytes |->
     IF SpillAreaAlignmentBytes # 0
       THEN applyAlignment(SpillAreaStartOffset, SpillAreaAlignmentBytes)
              - SpillAreaStartOffset
       ELSE 0,
   LocalsSlotsPaddingBytes |->
     IF LocalsSlotsAlignmentBytes # 0
       THEN applyAlignment(GlobalsSize, LocalsSlotsAlignmentBytes) - GlobalsSize
       ELSE 0]

\* The registers that are in CalleeSaves and in RegsUsed, in ascending order:
\* FP and LR count as callee-saved as needed.
RECURSIVE Ascending(_)
Ascending(S) ==
  IF S = {} THEN <<>>
  ELSE LET r == CHOOSE r \in S : \A q \in S : r <= q
       IN <<PhysReg(r)>> \o Ascending(S \ {r})

\* finishArgumentLowering(Arg, FramePtr, BasicFrameOffset, InArgsSizeBytes);
\* b.InArgsSizeBytes is the running size.
finishArgumentLowering(b, Arg, FramePtr, BasicFrameOffset) ==
  LET Load(m, A, off) ==
        IF m.Vars[A].reg # NoRegister
          THEN Emit(m, Arm("ldr", VarOp(m.Vars, A),
                           <<Opnd("mem", Bits(off), 0, FramePtr, FALSE)>>))
          ELSE m
      Put(m, A, off) ==
        Load([m EXCEPT !.Vars[A].off = off,
                       !.InArgsSizeBytes = @ + (IF m.Vars[A].ty = "i64" THEN 8 ELSE 4)],
             A, off)
      One(m, A) == Put(m, A, BasicFrameOffset + m.InArgsSizeBytes)
      Split(lo, hi) == One(One(b, lo), hi)
  IN IF b.Vars[Arg].lo # 0 /\ b.Vars[Arg].hi # 0 /\ b.Vars[Arg].ty = "i64"
       THEN Split(b.Vars[Arg].lo, b.Vars[Arg].hi)
       ELSE One(b, Arg)

\* addProlog's NumGPRArgs after an argument of type Ty when an i64 that finds
\* no pair leaves the counter where it was.
NumGPRArgsAfter_NoBump(Ty, NumGPRArgs) ==
  IF Ty \notin {"i32", "i64"} THEN NumGPRArgs
  ELSE IF NumGPRArgs >= ARM32_MAX_GPR_ARG THEN NumGPRArgs
  ELSE IF Ty = "i64"
    THEN IF StartEven(NumGPRArgs) + 2 <= ARM32_MAX_GPR_ARG
           THEN StartEven(NumGPRArgs) + 2 ELSE NumGPRArgs
  ELSE NumGPRArgs + 1

\* addProlog's NumGPRArgs after an argument of type Ty: an i64 met below
\* ARM32_MAX_GPR_ARG starts at an even register and adds 2, an i32 met below
\* it adds 1.
NumGPRArgsAfter(Ty, NumGPRArgs) ==
  IF Ty \notin {"i32", "i64"} THEN NumGPRArgs
  ELSE IF NumGPRArgs >= ARM32_MAX_GPR_ARG THEN NumGPRArgs
  ELSE IF Ty = "i64" THEN StartEven(NumGPRArgs) + 2
  ELSE NumGPRArgs + 1

\* Whether addProlog's walk takes an argument of type Ty as passed in
\* registers and goes on to the next (its "continue").
SkippedAsRegister(Ty, NumGPRArgs) ==
  /\ Ty \in {"i32", "i64"}
  /\ NumGPRArgs < ARM32_MAX_GPR_ARG
  /\ NumGPRArgsAfter(Ty, NumGPRArgs) <= ARM32_MAX_GPR_ARG

\* addProlog's walk over the arguments from argument I on; b.placed lists the
\* positions handed to finishArgumentLowering.
RECURSIVE StackArgs(_, _, _, _, _)
StackArgs(b, I, NumGPRArgs, FramePtr, BasicFrameOffset) ==
  IF I > Len(Args) THEN b
  ELSE
    LET Ty == b.Vars[Args[I]].ty
        Placed(m) == [m EXCEPT !.placed = Append(@, I)]
        Rest(m) == StackArgs(m, I + 1, NumGPRArgsAfter(Ty, NumGPRArgs), FramePtr,
                             BasicFrameOffset)
    IN IF SkippedAsRegister(Ty, NumGPRArgs) \/ Ty \notin {"i32", "i64"}
         THEN Rest(b)
         ELSE CHOOSE r \in { Rest(Placed(m)) :
                               m \in {finishArgumentLowering(b, Args[I], FramePtr,
                                                             BasicFrameOffset)} } : TRUE

\* Stack arguments addressed from the preserved registers' end whatever the
\* frame register.
BasicFrameOffsetOf_NoSpill(PreservedRegsSizeBytes, SpillArea) ==
  PreservedRegsSizeBytes

\* size_t BasicFrameOffset = PreservedRegsSizeBytes;
\* if (!UsesFramePointer) BasicFrameOffset += SpillAreaSizeBytes;
BasicFrameOffsetOf(PreservedRegsSizeBytes, SpillArea) ==
  IF ~UsesFramePointer THEN PreservedRegsSizeBytes + SpillArea
  ELSE PreservedRegsSizeBytes

\* addProlog(Node) with the slot parameters p.
addProlog(p) ==
  LET SP == PhysReg(RegARM32.sp)
      FP == PhysReg(RegARM32.fp)
      Also == (IF UsesFramePointer THEN {RegARM32.fp} ELSE {})
                \cup (IF ~MaybeLeafFunc THEN {RegARM32.lr} ELSE {})
      Used == ({ Vars[i].reg : i \in 1..Len(Vars) } \ {NoRegister}) \cup Also
      Push(b, GPRsToPreserve) ==
        [(IF GPRsToPreserve # <<>>
            THEN Emit(b, Arm("push", NoOpnd, GPRsToPreserve)) ELSE b)
           EXCEPT !.Preserved = 4 * Len(GPRsToPreserve)]
      MovFP(b) ==
        IF UsesFramePointer
          THEN Emit(Emit(b, Arm("mov", FP, <<SP>>)), Arm("fakeuse", NoOpnd, <<FP>>))
          ELSE b
      Sized(b, pad) ==
        [b EXCEPT !.rawSpill = p.LocalsSize + p.GlobalsSize
                                 + pad.SpillAreaPaddingBytes
                                 + pad.LocalsSlotsPaddingBytes]
      Area(b) ==
        Sized(b, alignStackSpillAreas(b.Preserved, p.SpillAreaAlignmentBytes,
                                      p.GlobalsSize, p.LocalsSlotsAlignmentBytes))
      Align(b) ==
        [b EXCEPT !.Spill = IF NeedsStackAlignment
                              THEN applyStackAlignment(b.Preserved + b.rawSpill)
                                     - b.Preserved
                              ELSE b.rawSpill]
      SubBy(b) == Emit(b, Arm("sub", SP, <<SP, b.op>>))
      SubSP(b) ==
        IF b.Spill # 0
          THEN SubBy(legalizeIn(b, ConstInt(Bits(b.Spill)), {"Reg", "Flex"},
                                RegARM32.ip))
          ELSE b
      Walk(b) ==
        CHOOSE r \in { StackArgs(m, 1, 0,
                                  IF UsesFramePointer THEN RegARM32.fp
                                  ELSE RegARM32.sp,
                                  BasicFrameOffsetOf(m.Preserved, m.Spill)) :
                         m \in {b} } : TRUE
      Start == [Vars |-> Vars, insts |-> <<>>, op |-> NoOpnd, t |-> NoOpnd,
                aborted |-> FALSE, RegsUsed |-> Used, Preserved |-> 0,
                rawSpill |-> 0, Spill |-> 0, InArgsSizeBytes |-> 0,
                placed |-> <<>>]
  IN Walk(SubSP(Align(Area(MovFP(
       Push(Start, Ascending((RegARM32.preserved \cup Also) \cap Used)))))))

\* genFrame's first half: addProlog on the entry node.  The instructions go in
\* front of the node's first live instruction.
AddProlog ==
  /\ tph = "prolog"
  /\ \E p \in SlotParams :
       LET Set(res, at) ==
             /\ Vars' = res.Vars
             /\ tNodes' = [tNodes EXCEPT
                             ![1] = CtxInsertAll(@, at, at, res.insts).list]
             /\ RegsUsed' = res.RegsUsed
             /\ SpillAreaSizeBytes' = res.Spill
             /\ frameLog' = [frameLog EXCEPT !.Preserved = res.Preserved,
                                             !.rawSpill = res.rawSpill,
                                             !.prolog = res.insts,
                                             !.placed = res.placed]
       IN Set(addProlog(p), SkipDeleted(tNodes[1], 1))
  /\ tph' = "epilog"
  /\ UNCHANGED <<tFlags, Args, lastOp, UsesFramePointer, NeedsStackAlignment,
                 MaybeLeafFunc, notFrame>>

\* A return sequence that closes the bundle in front of the return.
SandboxBundle_UnlockFirst(LR, RetMask, RetValue) ==
  << Arm("bundle_lock", NoOpnd, <<>>),
     Arm("bic", LR, <<LR, RetMask>>),
     Arm("bundle_unlock", NoOpnd, <<>>),
     Arm("ret", NoOpnd, <<LR>> \o RetValue) >>

\* _bundle_lock(); _bic(LR, LR, RetMask); _ret(LR, RetValue); _bundle_unlock();
SandboxBundle(LR, RetMask, RetValue) ==
  << Arm("bundle_lock", NoOpnd, <<>>),
     Arm("bic", LR, <<LR, RetMask>>),
     Arm("ret", NoOpnd, <<LR>> \o RetValue),
     Arm("bundle_unlock", NoOpnd, <<>>) >>

\* A restore list that leaves LR out.
GPRsToRestore_NoLR(Used) ==
  Ascending((RegARM32.preserved
               \cup (IF UsesFramePointer THEN {RegARM32.fp} ELSE {}))
            \cap Used)

\* addEpilog's GPRsToRestore: the registers in CalleeSaves, with FP and LR as
\* needed, that are in RegsUsed, by ascending number.
GPRsToRestore(Used) ==
  Ascending((RegARM32.preserved
               \cup (IF UsesFramePointer THEN {RegARM32.fp} ELSE {})
               \cup (IF ~MaybeLeafFunc THEN {RegARM32.lr} ELSE {}))
            \cap Used)

\* addEpilog(Node) on the node's instruction list.
addEpilog(list, vs) ==
  LET SP == PhysReg(RegARM32.sp)
      FP == PhysReg(RegARM32.fp)
      AddBy(b) == Emit(b, Arm("add", SP, <<SP, b.op>>))
      Restore(b) ==
        IF UsesFramePointer
          THEN Emit(Emit(b, Arm("fakeuse", NoOpnd, <<SP>>)), Arm("mov", SP, <<FP>>))
        ELSE IF SpillAreaSizeBytes # 0
          THEN AddBy(legalizeIn(b, ConstInt(Bits(SpillAreaSizeBytes)),
                                {"Reg", "Flex"}, RegARM32.ip))
        ELSE b
      PopAll(b, ToRestore) ==
        IF ToRestore # <<>>
          THEN Emit(b, Arm("pop", NoOpnd, ToRestore)) ELSE b
      Pop(b) == PopAll(b, GPRsToRestore(RegsUsed))
      Bundle(b, RetMask, RetValue) ==
        [b EXCEPT !.insts = @ \o SandboxBundle(b.op, RetMask, RetValue)]
      MakeLR(b, RetValue) == Bundle(makeRegIn(b, RegARM32.lr), b.op, RetValue)
      \* 0xc000000f
      Sandbox(b, RetValue) ==
        MakeLR(legalizeIn(b, ConstInt(Rotr(Bits(63), 2)), {"Reg", "Flex"}, NoRegister),
               RetValue)
      Place(RI, b) ==
        [list |-> [CtxInsertAll(list, RI, RI, b.insts).list
                     EXCEPT ![RI + Len(b.insts)].deleted = (@ \/ tFlags.UseSandboxing)],
         Vars |-> b.Vars]
      From(RI) ==
        Place(RI, IF tFlags.UseSandboxing
                    THEN Sandbox(Pop(Restore(Lowering(vs))),
                                 IF list[RI].srcs # <<>> THEN <<list[RI].srcs[1]>>
                                 ELSE <<>>)
                    ELSE Pop(Restore(Lowering(vs))))
      Last(rets) == CHOOSE j \in rets : \A m \in rets : m <= j
      Find(rets) == IF rets = {} THEN [list |-> list, Vars |-> vs]
                    ELSE From(Last(rets))
  IN Find({ j \in 1..Len(list) : list[j].op = "ret" })

\* genFrame's second half: addEpilog on the nodes, one after the other.
AddEpilog ==
  /\ tph = "epilog"
  /\ LET Set(n, res) ==
           /\ tNodes' = [tNodes EXCEPT ![n] = res.list]
           /\ Vars' = res.Vars
           /\ frameLog' = [frameLog EXCEPT !.epilogs = n]
           /\ tph' = IF n = Len(tNodes) THEN "done" ELSE "epilog"
     IN Set(frameLog.epilogs + 1, addEpilog(tNodes[frameLog.epilogs + 1], Vars))
  /\ UNCHANGED <<tFlags, Args, lastOp, UsesFramePointer, NeedsStackAlignment,
                 MaybeLeafFunc, SpillAreaSizeBytes, RegsUsed, notFrame>>

-----------------------------------------------------------------------------
(* The functions handed to the target *)

\* A body with k arguments, the local i64 (k + 1) and the local i32 (k + 2):
\* one node that does something and returns; or a node that does something and
\* branches to the returning node; or one that branches on the local i32 to one
\* of two returning nodes.
Bodies(k) ==
  LET L64 == Opnd("var", {}, k + 1, NoRegister, FALSE)
      L32 == Opnd("var", {}, k + 2, NoRegister, FALSE)
      Callee == Opnd("reloc", {}, 0, NoRegister, FALSE)
      Label(n) == Opnd("label", {}, n, NoRegister, FALSE)
      AllocaC == Arm("InstAlloca", L32, <<ConstInt(Bits(40)), ConstInt({})>>)
      AllocaA == Arm("InstAlloca", L32, <<ConstInt(Bits(8)), ConstInt(Bits(32))>>)
      AllocaD == Arm("InstAlloca", L32, <<L32, ConstInt({})>>)
      Starts == { <<>>, <<AllocaC>>, <<AllocaA>>, <<AllocaD>>,
                  <<Arm("InstCall", L64, <<Callee>>)>>,
                  <<AllocaC, Arm("InstCall", L32, <<Callee>>)>>,
                  <<HighInst("InstIntrinsicCall", "Setjmp", L32, <<L32>>)>> }
      Rets == { Arm("InstRet", NoOpnd, <<>>),
                Arm("InstRet", NoOpnd, <<L32>>),
                Arm("InstRet", NoOpnd, <<L64>>) }
  IN UNION { { << s \o <<r>> >>,
               << s \o <<Arm("InstBr", NoOpnd, <<Label(2)>>)>>, <<r>> >>,
               << s \o <<Arm("InstBr", NoOpnd, <<L32, Label(2), Label(3)>>)>>,
                  <<r>>, <<Arm("InstRet", NoOpnd, <<>>)>> >> } :
             s \in Starts, r \in Rets }

FrameArgLists ==
  { <<"i32", "i64", "i32", "i32">>, <<"i64", "i64", "i64">>, <<"i32", "f32">>,
    <<"i32", "i32", "i32", "i64", "i32">> }

\* The bodies of a function with k arguments: those above, and bodies that
\* assign an i64 argument to the local i64, so that the argument is split.
FrameBodies(k) ==
  LET L64 == Opnd("var", {}, k + 1, NoRegister, FALSE)
      Wide == { a \in 1..k : \A tys \in FrameArgLists :
                               Len(tys) = k => tys[a] = "i64" }
  IN Bodies(k)
       \cup { << <<Arm("InstAssign", L64, <<Opnd("var", {}, a, NoRegister, FALSE)>>),
                   Arm("InstRet", NoOpnd, <<>>)>> >> : a \in Wide }

FrameNext == LowerArguments \/ LowerInst \/ RegAlloc \/ AddProlog \/ AddEpilog

SpecFrameInit ==
  ASanIdle /\ FuncIdle /\ PipeIdle /\ LowerIdle
    /\ CodeInitWith(FrameArgLists, [k \in 0..MaxArgs |-> FrameBodies(k)]) /\ FrameIdle

SpecFrame == SpecFrameInit /\ [][FrameNext]_vars

\* The bytes the prolog takes off SP: four for each register pushed, and what
\* its sub subtracts (a FlexImm, or the register the instructions before it
\* load).
PrologSPDelta ==
  LET Pro == frameLog.prolog
      SP == PhysReg(RegARM32.sp)
      pushes == { j \in 1..Len(Pro) : Pro[j].op = "push" }
      subs == { j \in 1..Len(Pro) : Pro[j].op = "sub" /\ Pro[j].dest = SP }
      Amount(j) ==
        IF Pro[j].srcs[2].k = "flex"
          THEN Val(Rotr(Pro[j].srcs[2].bits, Pro[j].srcs[2].n))
          ELSE Val(RegValue(SelectSeq(SubSeq(Pro, 1, j - 1),
                                      LAMBDA I : I.dest = Pro[j].srcs[2])))
  IN (IF pushes = {} THEN 0 ELSE 4 * Len(Pro[CHOOSE j \in pushes : TRUE].srcs))
       + (IF subs = {} THEN 0 ELSE Amount(CHOOSE j \in subs : TRUE))

\* C7: in a function in which at least one alloca was lowered, whatever the
\* preserved registers and the spill-area sizes, after addProlog
\* PreservedRegsSizeBytes + SpillAreaSizeBytes is a multiple of 16, and the
\* prolog's one push and one sub take exactly that many bytes off SP, so SP is
\* 16-byte aligned at the prolog's end if it was on entry.
C7_PrologAligned ==
  (tph \in {"epilog", "done"} /\ frameLog.allocas >= 1) =>
    LET Pro == frameLog.prolog
        SP == PhysReg(RegARM32.sp)
    IN /\ (frameLog.Preserved + SpillAreaSizeBytes) % ARM32_STACK_ALIGNMENT_BYTES = 0
       /\ Cardinality({ j \in 1..Len(Pro) : Pro[j].op = "push" }) <= 1
       /\ Cardinality({ j \in 1..Len(Pro) : Pro[j].dest = SP }) <= 1
       /\ \A j \in 1..Len(Pro) : Pro[j].dest = SP => Pro[j].op = "sub" /\ Pro[j].srcs[1] = SP
       /\ PrologSPDelta = frameLog.Preserved + SpillAreaSizeBytes

\* A function with an alloca whose preserved registers and spill areas do not
\* add up to a multiple of 16: the prolog has made the spill area larger, and
\* the amount goes through ip.
C7_Witness ==
  /\ tph = "done"
  /\ frameLog.allocas >= 1
  /\ (frameLog.Preserved + frameLog.rawSpill) % ARM32_STACK_ALIGNMENT_BYTES # 0
  /\ SpillAreaSizeBytes > frameLog.rawSpill
  /\ frameLog.Preserved > 4
  /\ \E j \in 1..Len(frameLog.prolog) : frameLog.prolog[j].op = "movw"

\* C9: after addEpilog, a node that had a return holds, with sandboxing, one
\* run bundle_lock; bic lr, lr, #0xC000000F; ret lr; bundle_unlock with nothing
\* in between, behind the frame teardown and the pop and in front of the
\* original return, which is deleted, so that one live return is left; without
\* sandboxing the original return stays live and there is no bundle instruction.
C9_SandboxedReturn ==
  tph = "done" =>
    \A n \in 1..Len(tNodes) :
      (\E j \in 1..Len(tNodes[n]) : tNodes[n][j].op = "InstRet") =>
        LET I == tNodes[n]
            SP == PhysReg(RegARM32.sp)
            At(opc) == { j \in 1..Len(I) : I[j].op = opc }
            teardown == { j \in 1..Len(I) :
                            \/ I[j].op = "pop"
                            \/ I[j].op \in {"mov", "add"} /\ I[j].dest = SP }
            Sequence(b) ==
              /\ b + 4 <= Len(I)
              /\ I[b + 1].op = "bic"
              /\ I[b + 1].dest.reg = RegARM32.lr
              /\ I[b + 1].srcs[1] = I[b + 1].dest
              /\ I[b + 1].srcs[2].k = "flex"
              /\ Rotr(I[b + 1].srcs[2].bits, I[b + 1].srcs[2].n) = {0, 1, 2, 3, 30, 31}
              /\ I[b + 2].op = "ret"
              /\ I[b + 2].srcs[1] = I[b + 1].dest
              /\ I[b + 3].op = "bundle_unlock"
              /\ \A j \in b..(b + 3) : ~I[j].deleted
              /\ I[b + 4].deleted
              /\ At("ret") = {b + 2, b + 4}
              /\ At("bic") \cap { j \in 1..Len(I) : I[j].dest.reg = RegARM32.lr }
                   = {b + 1}
              /\ \A j \in teardown : j < b
              /\ frameLog.Preserved > 0 => I[b - 1].op = "pop"
              /\ (UsesFramePointer \/ SpillAreaSizeBytes # 0) =>
                   \E j \in teardown : I[j].dest = SP
        IN IF tFlags.UseSandboxing
             THEN /\ Cardinality(At("bundle_lock")) = 1
                  /\ Cardinality(At("bundle_unlock")) = 1
                  /\ Sequence(CHOOSE b \in At("bundle_lock") : TRUE)
             ELSE /\ At("bundle_lock") = {}
                  /\ At("bundle_unlock") = {}
                  /\ At("bic") \cap { j \in 1..Len(I) : I[j].dest.reg = RegARM32.lr } = {}
                  /\ Cardinality(At("ret")) = 1
                  /\ \A j \in At("ret") : ~I[j].deleted

\* A sandboxed function with two returning nodes, one of them returning a
\* value, with registers to pop and a frame pointer to restore.
C9_Witness ==
  /\ tph = "done"
  /\ tFlags.UseSandboxing
  /\ UsesFramePointer
  /\ frameLog.Preserved > 0
  /\ Len(tNodes) = 3
  /\ \A n \in {2, 3} : \E j \in 1..Len(tNodes[n]) : tNodes[n][j].op = "bundle_lock"
  /\ \E j \in 1..Len(tNodes[2]) : tNodes[2][j].op = "InstRet" /\ tNodes[2][j].srcs # <<>>

-----------------------------------------------------------------------------
(* One instruction through TargetLowering::lower *)

\* The variables of the function the instruction stands in: an i32 Dest, an
\* i32 on the stack, an i32 of infinite weight, an i64 Dest, two i64, an f32
\* Dest, an f32, a vector Dest, two i32 handed to calls, two i8, two i16, two
\* i1 and an i1 Dest.
LowerTypes ==
  <<"i32", "i32", "i32", "i64", "i64", "i64", "f32", "f32", "v4i32", "i32", "i32",
    "i8", "i8", "i16", "i16", "i1", "i1", "i1">>

LowerVars ==
  [i \in 1..Len(LowerTypes) |->
     [NewVariable(LowerTypes[i]) EXCEPT !.inf = (i = 3)]]

LV(i) == VarOp(LowerVars, i)

Srcs32 == {LV(2), LV(3), ConstInt(Bits(5)), ConstInt(Bits(305419896))}

\* ConstantInteger64 0x0000000200000001
Srcs64 == {LV(5), LV(6), Opnd("const", {0, 33}, 0, NoRegister, FALSE)}

\* The operands compared: two variables of each integer type, or a variable
\* and a constant.
IcmpSrcs ==
  { <<LV(a), LV(a + 1)>> : a \in {2, 5, 12, 14, 16} }
    \cup { <<LV(a), ConstInt(Bits(5))>> : a \in {2, 12, 14} }
    \cup { <<LV(13), LV(12)>>,
           <<LV(5), Opnd("const", {0, 33}, 0, NoRegister, FALSE)>> }

\* The i64 sources assigned: a variable, ConstantInteger64
\* 0x0000000200000001, and memory operands [base, #imm] and [base, +/-index]
\* with the base on the stack or of infinite weight.
AssignSrcs64 ==
  { LV(5), Opnd("const", {0, 33}, 0, NoRegister, FALSE) }
    \cup { MemOp(B, NoOpnd, Bits(off), "kNoShift", 0, "Offset") :
             B \in {LV(2), LV(3)}, off \in {0, 8, 4092} }
    \cup { MemOp(B, LV(10), {}, "LSL", 2, mode) :
             B \in {LV(2), LV(3)}, mode \in {"Offset", "NegOffset"} }

\* The allocas lowered: constant sizes 0, 1, 16, 20, 100, 4096 and 65540 or a
\* size in a variable, on the stack or of infinite weight; alignments 0 (none
\* given), 1, 8, 16, 32, 64, 256, 512, 4096 and 2^24.
AllocaSizeOps ==
  { ConstInt(Bits(n)) : n \in {0, 1, 16, 20, 100, 4096, 65540} } \cup {LV(2), LV(3)}

AllocaAligns == {0, 1, 8, 16, 32, 64, 256, 512, 4096, 16777216}

\* The operands of the i64 shifts: value and amount in variables, the amount
\* a constant (1), the value a constant, the value shifted by itself.
ShiftSrcs64 ==
  { <<LV(5), LV(6)>>, <<LV(5), Opnd("const", {0, 33}, 0, NoRegister, FALSE)>>,
    <<Opnd("const", {0, 33}, 0, NoRegister, FALSE), LV(6)>>, <<LV(5), LV(5)>> }

IntOps ==
  {"Add", "Sub", "And", "Or", "Xor", "Mul", "Shl", "Lshr", "Ashr",
   "Udiv", "Sdiv", "Urem", "Srem"}

LowerInputs ==
  { HighInst("InstArithmetic", w, LV(1), <<a, c>>) :
      w \in IntOps, a \in Srcs32, c \in Srcs32 }
  \cup { HighInst("InstArithmetic", w, LV(4), <<a, c>>) :
           w \in IntOps \ {"Shl", "Lshr", "Ashr"}, a \in Srcs64, c \in Srcs64 }
  \cup { HighInst("InstArithmetic", w, LV(4), ops) :
           w \in {"Shl", "Lshr", "Ashr"}, ops \in ShiftSrcs64 }
  \cup { HighInst("InstArithmetic", w, LV(7), <<LV(8), LV(8)>>) :
           w \in {"Fadd", "Fsub", "Fmul", "Fdiv", "Frem"} }
  \cup { HighInst("InstArithmetic", "Add", LV(9), <<LV(9), LV(9)>>) }
  \cup { HighInst(k, "", LV(1), <<LV(2), LV(3)>>) :
           k \in {"InstFcmp", "InstSelect", "InstSwitch", "InstPhi"} }
  \cup { HighInst("InstIcmp", c, LV(18), ops) :
           c \in DOMAIN TableIcmp32, ops \in IcmpSrcs }
  \cup { HighInst("InstIcmp", "Eq", LV(9), <<LV(9), LV(9)>>) }
  \cup { HighInst("InstAssign", "", LV(4), <<a>>) : a \in AssignSrcs64 }
  \cup { HighInst("InstAlloca", "", LV(1), <<sz, ConstInt(Bits(al))>>) :
           sz \in AllocaSizeOps, al \in AllocaAligns }
  \cup { HighInst("InstIntrinsicCall", ID, NoOpnd, <<LV(10)>>) :
           ID \in IntrinsicsUnimplemented \cup {"UnknownIntrinsic"} }
  \cup { HighInst("InstIntrinsicCall", "Longjmp", NoOpnd, <<LV(10), LV(11)>>),
         HighInst("InstIntrinsicCall", "Setjmp", LV(1), <<LV(10)>>) }
  \cup { HighInst("InstCall", "", d, <<t>> \o a) :
           d \in {NoOpnd, LV(1), LV(4)},
           t \in {Opnd("reloc", {}, 0, NoRegister, FALSE), LV(2)},
           a \in {<<>>, <<LV(10)>>, <<LV(10), LV(11)>>} }

LowerInit ==
  /\ lowerIn \in [op : {"lower"}, Inst : LowerInputs, Vars : {LowerVars},
                  SkipUnimplemented : BOOLEAN]
  /\ lowerOut = [done |-> FALSE]

\* The instruction is handed to its handler; what the handler inserts and the
\* variables it makes are kept, Func's error flag and MaybeLeafFunc are set as
\* the handler sets them.
LowerOne ==
  /\ lowerIn.op = "lower"
  /\ ~lowerOut.done
  /\ LET Done(res) ==
           /\ lowerOut' = [done |-> TRUE, aborted |-> res.aborted,
                           insts |-> res.insts, Vars |-> res.Vars, ran |-> FALSE,
                           asserted |-> res.asserted]
           /\ hasError' = (hasError \/ res.error)
           /\ MaybeLeafFunc' = (MaybeLeafFunc /\ res.MaybeLeafFunc)
     IN Done(lower(lowerIn.Inst, lowerIn.Vars, lowerIn.SkipUnimplemented))
  /\ UNCHANGED <<lowerIn, optLevel, Flags, ppc, pst, ran, asanVars, funcVars,
                 codeVars, UsesFramePointer, NeedsStackAlignment,
                 SpillAreaSizeBytes, RegsUsed, frameLog>>

-----------------------------------------------------------------------------
(* The inserted instructions run on an ARMv7 core *)

\* ConditionPassed
ConditionPassed(m, cond) ==
  CASE cond = "EQ" -> m.Z
    [] cond = "NE" -> ~m.Z
    [] cond = "CS" -> m.C
    [] cond = "CC" -> ~m.C
    [] cond = "HI" -> m.C /\ ~m.Z
    [] cond = "LS" -> ~m.C \/ m.Z
    [] cond = "GE" -> m.N = m.V
    [] cond = "LT" -> m.N # m.V
    [] cond = "GT" -> ~m.Z /\ m.N = m.V
    [] cond = "LE" -> m.Z \/ m.N # m.V
    [] cond = "MI" -> m.N
    [] cond = "PL" -> ~m.N
    [] OTHER -> TRUE

\* The word an operand stands for: a register's content, an immediate, a
\* rotated immed8, a register shifted by an immediate amount or by the low
\* eight bits of a register.
OperandValue(m, O) ==
  CASE O.k = "var" -> m.env[O.n]
    [] O.k = "flex" -> Rotr(O.bits, O.n)
    [] O.k = "flexreg" ->
         ShiftW(O.shift, m.env[O.base.n],
                IF "by" \in DOMAIN O THEN Val(m.env[O.by.n] \cap (0..7)) ELSE O.amt)
    [] OTHER -> O.bits \cap (0..31)

\* The instructions the core is handed here.
ExecOps ==
  {"mov", "mov_nonkillable", "movw", "movt", "mvn", "add", "adds", "adc", "sub",
   "subs", "sbc", "sbcs", "rsb", "cmp", "and", "bic", "orr", "eor", "lsl", "lsr",
   "asr", "fakeuse"}

\* One instruction on the machine state m: the registers (env) and the flags.
ExecOne(m, I) ==
  LET v1 == OperandValue(m, I.srcs[1])
      v2 == OperandValue(m, I.srcs[2])
      amt == Val(v2 \cap (0..7))
      Set(w) == [m EXCEPT !.env[I.dest.n] = w]
      SetFlags(n, r) == [n EXCEPT !.N = r.N, !.Z = r.Z, !.C = r.C, !.V = r.V]
      op == I.op
  IN IF ~ConditionPassed(m, IF "pred" \in DOMAIN I THEN I.pred ELSE "AL") THEN m
     ELSE CASE op \in {"mov", "mov_nonkillable", "movw"} -> Set(v1)
            [] op = "movt" ->
                 Set((m.env[I.dest.n] \cap (0..15)) \cup { i + 16 : i \in v1 \cap (0..15) })
            [] op = "mvn" -> Set(Not32(v1))
            [] op = "add" -> Set(AddWithCarry(v1, v2, FALSE).result)
            [] op = "adds" -> SetFlags(Set(AddWithCarry(v1, v2, FALSE).result),
                                    AddWithCarry(v1, v2, FALSE))
            [] op = "adc" -> Set(AddWithCarry(v1, v2, m.C).result)
            [] op = "sub" -> Set(AddWithCarry(v1, Not32(v2), TRUE).result)
            [] op = "subs" -> SetFlags(Set(AddWithCarry(v1, Not32(v2), TRUE).result),
                                    AddWithCarry(v1, Not32(v2), TRUE))
            [] op = "sbc" -> Set(AddWithCarry(v1, Not32(v2), m.C).result)
            [] op = "sbcs" -> SetFlags(Set(AddWithCarry(v1, Not32(v2), m.C).result),
                                    AddWithCarry(v1, Not32(v2), m.C))
            [] op = "rsb" -> Set(AddWithCarry(v2, Not32(v1), TRUE).result)
            [] op = "cmp" -> SetFlags(m, AddWithCarry(v1, Not32(v2), TRUE))
            [] op = "and" -> Set(v1 \cap v2)
            [] op = "bic" -> Set(v1 \ v2)
            [] op = "orr" -> Set(v1 \cup v2)
            [] op = "eor" -> Set((v1 \cup v2) \ (v1 \cap v2))
            [] op = "lsl" -> Set(ShiftW("LSL", v1, amt))
            [] op = "lsr" -> Set(ShiftW("LSR", v1, amt))
            [] op = "asr" -> Set(ShiftW("ASR", v1, amt))
            [] OTHER -> m

RECURSIVE Run(_, _)
Run(insts, m) ==
  IF insts = <<>> THEN m ELSE Run(Tail(insts), ExecOne(m, Head(insts)))

\* The 32-bit contents tried: 0, 1, 0x7F, 0x80, 0xFF, 0x17F, 0x8000,
\* 0xFFFF0001, 0x80000000, 0xFFFFFFFF.
ExecWords ==
  { Bits(n) : n \in {0, 1, 127, 128, 255, 383, 32768} }
    \cup { Not32(Bits(n)) : n \in {0, 65534, 2147483647} }

\* The 64-bit contents tried: 0, 1, 2^31, 2^32 - 1, 2^32, 2^33 - 1, 2^63 - 1,
\* 2^63, 2^64 - 1.
ExecWords64 ==
  { {}, {0}, {31}, 0..31, {32}, 0..32, 0..62, {63}, 0..63 }

\* The 64-bit contents shifted: those above, 0x8000000180000001 and
\* 0x7FFFFFFE00010003.
ShiftWords64 ==
  ExecWords64 \cup { {0, 31, 32, 63}, {0, 1, 16} \cup (33..62) }

\* The shift operands tried: every amount from 0 to 63, two amounts with a
\* high word that is not zero, and the amounts 64 and 255.
ShiftAmounts64 ==
  { Bits(c) : c \in 0..63 }
    \cup { Bits(5) \cup {32}, Bits(40) \cup {63}, Bits(64), Bits(255) }

IsShift64(vs, Inst) ==
  /\ Inst.op = "InstArithmetic"
  /\ Inst.which \in {"Shl", "Lshr", "Ashr"}
  /\ vs[Inst.dest.n].ty = "i64"

\* What a register holds that the function has not written.
Junk == Bits(1515870810)

\* The registers before the instruction: x in the first source variable, y in
\* the second if it is another one, an i64 variable's words in its halves.
InitEnv(vs, Inst, x, y) ==
  LET Holds(v, O, w) ==
        /\ O.k = "var"
        /\ \/ vs[O.n].ty # "i64" /\ v = O.n
           \/ vs[O.n].ty = "i64" /\ v = (IF w = "lo" THEN vs[O.n].lo ELSE vs[O.n].hi)
      Lo(z) == z \cap (0..31)
      Hi(z) == { i - 32 : i \in z \cap (32..63) }
      S0 == Inst.srcs[1]
      S1 == Inst.srcs[2]
  IN [v \in 0..Len(vs) |->
        IF Holds(v, S0, "lo") THEN Lo(x)
        ELSE IF Holds(v, S0, "hi") THEN Hi(x)
        ELSE IF Holds(v, S1, "lo") THEN Lo(y)
        ELSE IF Holds(v, S1, "hi") THEN Hi(y)
        ELSE Junk]

\* The value of a source or of Dest in the registers env: 64 bits for an i64.
ValueIn(vs, env, O) ==
  IF O.k # "var" THEN O.bits
  ELSE IF vs[O.n].ty = "i64"
    THEN env[vs[O.n].lo] \cup { i + 32 : i \in env[vs[O.n].hi] }
  ELSE env[O.n]

\* The instructions inserted for an arithmetic instruction or a comparison run
\* from registers that hold some contents; the contents before and after are
\* kept.
Execute ==
  /\ lowerIn.op = "lower"
  /\ lowerOut.done
  /\ ~lowerOut.aborted
  /\ ~lowerOut.ran
  /\ lowerIn.Inst.op \in {"InstArithmetic", "InstIcmp"}
  /\ lowerOut.insts # <<>>
  /\ \A j \in 1..Len(lowerOut.insts) : lowerOut.insts[j].op \in ExecOps
  /\ LET vs == lowerOut.Vars
         Inst == lowerIn.Inst
         Wide == \E q \in 1..2 : Inst.srcs[q].k = "var"
                                  /\ vs[Inst.srcs[q].n].ty = "i64"
         Ran(pre, m) ==
           lowerOut' = [lowerOut EXCEPT !.ran = TRUE]
                         @@ [pre |-> pre, post |-> m.env]
     IN \E x \in IF IsShift64(vs, Inst) THEN ShiftWords64
                  ELSE IF Wide THEN ExecWords64 ELSE ExecWords,
           y \in IF IsShift64(vs, Inst) THEN ShiftAmounts64
                  ELSE IF Wide THEN ExecWords64 ELSE ExecWords :
          Ran(InitEnv(vs, Inst, x, y),
              Run(lowerOut.insts,
                  [env |-> InitEnv(vs, Inst, x, y),
                   N |-> FALSE, Z |-> FALSE, C |-> FALSE, V |-> FALSE]))
  /\ UNCHANGED <<lowerIn, pipeVars, asanVars, funcVars, codeVars, frameVars>>

\* SP before an alloca, 16-byte aligned: 0x20000000, 0x41000030, 0x7FFF0010,
\* 0x7FFFFFF0.
SPWords == { Bits(n) : n \in {536870912, 1090519088, 2147418128, 2147483632} }

\* The sizes a dynamic alloca is asked for.
SizeWords == { Bits(n) : n \in {0, 1, 15, 16, 17, 100, 4096, 65540} }

\* The instructions inserted for an alloca run from an aligned SP, held by the
\* physical register's variable, and some size in the size variable.
ExecuteAlloca ==
  /\ lowerIn.op = "lower"
  /\ lowerOut.done
  /\ ~lowerOut.aborted
  /\ ~lowerOut.ran
  /\ lowerIn.Inst.op = "InstAlloca"
  /\ LET vs == lowerOut.Vars
         Size == lowerIn.Inst.srcs[1]
         Env(sp, y) == [v \in 0..Len(vs) |->
                          IF v = 0 THEN sp
                          ELSE IF Size.k = "var" /\ v = Size.n THEN y ELSE Junk]
         Ran(pre, m) ==
           lowerOut' = [lowerOut EXCEPT !.ran = TRUE]
                         @@ [pre |-> pre, post |-> m.env]
     IN \E sp \in SPWords, y \in IF Size.k = "var" THEN SizeWords ELSE {{}} :
          Ran(Env(sp, y),
              Run(lowerOut.insts,
                  [env |-> Env(sp, y),
                   N |-> FALSE, Z |-> FALSE, C |-> FALSE, V |-> FALSE]))
  /\ UNCHANGED <<lowerIn, pipeVars, asanVars, funcVars, codeVars, frameVars>>

SpecLowerInit ==
  ASanIdle /\ FuncIdle /\ PipeIdle /\ LowerInit /\ CodeIdle /\ FrameIdle

LowerNext ==
  \/ LowerOne
  \/ Execute
  \/ ExecuteAlloca

SpecLower == SpecLowerInit /\ [][LowerNext]_vars

\* The lowering ran with SkipUnimplemented set.
Skipped == lowerIn.op = "lower" /\ lowerOut.done /\ lowerIn.SkipUnimplemented

UnimplementedArith ==
  lowerIn.Inst.op = "InstArithmetic" /\ lowerIn.Inst.which \in ArithUnimplemented

UnimplementedBare ==
  \/ lowerIn.Inst.op \in {"InstFcmp", "InstSelect", "InstSwitch"}
  \/ /\ lowerIn.Inst.op = "InstIntrinsicCall"
     /\ lowerIn.Inst.which \in IntrinsicsUnimplemented

CallWithArgs == lowerIn.Inst.op = "InstCall" /\ Len(lowerIn.Inst.srcs) > 1

\* C12 as stated: with SkipUnimplemented set, lowering an unimplemented
\* operation (udiv, sdiv, urem, srem, FP arithmetic, select, switch, fcmp, an
\* unimplemented intrinsic, a call with arguments) inserts no instruction and
\* leaves the error flag unset.
C12_AsStated ==
  (Skipped /\ (UnimplementedArith \/ UnimplementedBare \/ CallWithArgs)) =>
    lowerOut.insts = <<>> /\ ~hasError

\* C12, amended: with SkipUnimplemented set, select, switch, fcmp and an
\* unimplemented intrinsic insert nothing and make no variable; udiv, sdiv,
\* urem, srem and FP arithmetic insert only the moves that bring their operands
\* into fresh temporaries of infinite weight (mov, movw, movt, mvn), none of
\* which writes Dest or its halves; a call with arguments inserts the call
\* sequence without any argument set-up: one call on its target alone and no
\* instruction that reads an argument.  In every case the lowering goes on and
\* the error flag stays unset.
C12_SkipLeavesDestUnwritten ==
  Skipped =>
    LET I == lowerOut.insts
        Old == Len(lowerIn.Vars)
    IN /\ UnimplementedBare => I = <<>> /\ lowerOut.Vars = lowerIn.Vars
       /\ UnimplementedArith =>
            \A j \in 1..Len(I) :
              /\ I[j].op \in {"mov", "movw", "movt", "mvn"}
              /\ I[j].dest.k = "var" /\ I[j].dest.n > Old /\ I[j].dest.inf
              /\ lowerOut.Vars[I[j].dest.n].lo = 0
              /\ \A v \in 1..Old : I[j].dest.n \notin {lowerOut.Vars[v].lo,
                                                        lowerOut.Vars[v].hi}
       /\ CallWithArgs =>
            /\ Cardinality(CallsIn(I)) = 1
            /\ \A c \in CallsIn(I) : Len(I[c].srcs) = 1
            /\ \A j \in 1..Len(I), a \in 2..Len(lowerIn.Inst.srcs) :
                 \A q \in 1..Len(I[j].srcs) : I[j].srcs[q] # lowerIn.Inst.srcs[a]
       /\ (UnimplementedArith \/ UnimplementedBare \/ CallWithArgs) =>
            ~lowerOut.aborted /\ ~hasError

\* An i64 sdiv, skipped: halves of its operands were moved to temporaries and
\* Dest was split.
C12_Witness ==
  /\ Skipped
  /\ UnimplementedArith
  /\ lowerIn.Inst.which = "Sdiv"
  /\ lowerIn.Inst.dest = LV(4)
  /\ Len(lowerOut.insts) >= 3
  /\ lowerOut.Vars[4].lo # 0
  /\ ~hasError

\* The registers of a push or pop, as numbers.
RegList(I) == [q \in 1..Len(I.srcs) |-> I.srcs[q].reg]

\* The live instructions with this opcode in a list.
LiveAt(list, opc) == { j \in 1..Len(list) : list[j].op = opc /\ ~list[j].deleted }

\* The register list the prolog pushed, empty when it pushed nothing.
Pushed ==
  LET at == LiveAt(frameLog.prolog, "push")
  IN IF at = {} THEN <<>> ELSE RegList(frameLog.prolog[CHOOSE j \in at : TRUE])

\* C13: once the frame is generated, every node that returns holds one pop
\* whose register list is the list the prolog pushed (no pop when nothing was
\* pushed); the list is strictly ascending and holds exactly the callee-saved
\* registers r4..r11 given to some variable, fp when the function uses a frame
\* pointer, and lr when a call was lowered in the function, the helper call of
\* an intrinsic included.
C13_PopEqualsPush ==
  tph = "done" =>
    LET InUse == { Vars[i].reg : i \in 1..Len(Vars) } \cap RegARM32.preserved
        Called == \E n \in 1..Len(tNodes) : LiveAt(tNodes[n], "call") # {}
        Expected == InUse \cup (IF UsesFramePointer THEN {RegARM32.fp} ELSE {})
                          \cup (IF Called THEN {RegARM32.lr} ELSE {})
    IN /\ Cardinality(LiveAt(frameLog.prolog, "push")) <= 1
       /\ \A a, c \in 1..Len(Pushed) : a < c => Pushed[a] < Pushed[c]
       /\ { Pushed[a] : a \in 1..Len(Pushed) } = Expected
       /\ \A n \in 1..Len(tNodes) :
            (\E j \in 1..Len(tNodes[n]) : tNodes[n][j].op = "ret") =>
              /\ Cardinality(LiveAt(tNodes[n], "pop")) = (IF Pushed = <<>> THEN 0 ELSE 1)
              /\ \A j \in LiveAt(tNodes[n], "pop") : RegList(tNodes[n][j]) = Pushed

\* A function whose only call is the helper call of setjmp, with a variable in
\* r4 and two returning nodes: r4 and lr are pushed and popped twice.
C13_Witness ==
  /\ tph = "done"
  /\ Pushed = <<4, RegARM32.lr>>
  /\ \E j \in 1..Len(tNodes[1]) :
       tNodes[1][j].op = "InstIntrinsicCall" /\ tNodes[1][j].deleted
  /\ Len(tNodes) = 3
  /\ \A n \in {2, 3} : LiveAt(tNodes[n], "pop") # {}

\* A Variable that is guaranteed a register.
InRegister(V) == V.k = "var" /\ (V.reg # NoRegister \/ V.inf)

\* C14: whatever the operand (Variable, ConstantInteger32,
\* ConstantRelocatable, undef, memory operand, flexible operand) and the mask,
\* legalize returns a memory operand or a Variable without register and of
\* finite weight only when Mem is allowed, a flexible operand only when Flex
\* is allowed, and otherwise a Variable with a register or infinite weight; a
\* Variable returned has the register asked for when one is asked for, and a
\* memory operand returned has its base and index in registers.
C14_LegalizeAllowedForm ==
  (lowerIn.op = "legalize" /\ lowerOut.done) =>
    LET R == lowerOut.op
        I == lowerOut.insts
    IN /\ R.k \in {"mem", "flex", "flexreg", "var"}
       /\ R.k = "mem" =>
            /\ "Mem" \in lowerIn.Allowed
            /\ InRegister(R.base)
            /\ R.index # NoOpnd => InRegister(R.index)
       /\ R.k \in {"flex", "flexreg"} => "Flex" \in lowerIn.Allowed
       /\ R.k = "var" =>
            /\ InRegister(R) \/ "Mem" \in lowerIn.Allowed
            /\ lowerIn.RegNum # NoRegister => R.reg = lowerIn.RegNum
            /\ R # lowerIn.From /\ lowerIn.From.k # "flexreg" =>
                 I # <<>> /\ I[Len(I)].dest = R

\* A memory operand with base and index on the stack, Mem not allowed and r0
\* asked for: base and index are moved to registers and r0 is loaded.
C14_Witness ==
  /\ lowerIn.op = "legalize" /\ lowerOut.done
  /\ lowerIn.From.k = "mem"
  /\ lowerIn.From.index # NoOpnd
  /\ "Mem" \notin lowerIn.Allowed
  /\ lowerIn.RegNum = Reg_r0
  /\ Len(lowerOut.insts) = 3
  /\ lowerOut.insts[3].op = "ldr"
  /\ lowerOut.op.reg = Reg_r0


\* A 64-bit value's k-th 16-bit digit, and the value of four such digits.
Digit(w, k) == Val({ i - 16 * k : i \in w \cap ((16 * k)..(16 * k + 15)) })

FromDigits(d) == UNION { { i + 16 * (k - 1) : i \in Bits(d[k]) } : k \in 1..4 }

\* (a + b) mod 2^64 and (a - b) mod 2^64, digit by digit, in the integers.
Plus64(a, b) ==
  LET s1 == Digit(a, 0) + Digit(b, 0)
      s2 == Digit(a, 1) + Digit(b, 1) + s1 \div 65536
      s3 == Digit(a, 2) + Digit(b, 2) + s2 \div 65536
      s4 == Digit(a, 3) + Digit(b, 3) + s3 \div 65536
  IN FromDigits(<<s1 % 65536, s2 % 65536, s3 % 65536, s4 % 65536>>)

Minus64(a, b) ==
  LET Borrow(d) == IF d < 0 THEN 1 ELSE 0
      d1 == Digit(a, 0) - Digit(b, 0)
      d2 == Digit(a, 1) - Digit(b, 1) - Borrow(d1)
      d3 == Digit(a, 2) - Digit(b, 2) - Borrow(d2)
      d4 == Digit(a, 3) - Digit(b, 3) - Borrow(d3)
  IN FromDigits(<<(d1 + 65536) % 65536, (d2 + 65536) % 65536,
                  (d3 + 65536) % 65536, (d4 + 65536) % 65536>>)

\* An i64 add or sub was lowered.
WideAddSub ==
  /\ lowerIn.op = "lower"
  /\ lowerOut.done
  /\ lowerIn.Inst.op = "InstArithmetic"
  /\ lowerIn.Inst.which \in {"Add", "Sub"}
  /\ lowerIn.Vars[lowerIn.Inst.dest.n].ty = "i64"

\* C18: the instructions inserted for c = a + b on i64 end with
\* adds T_Lo, a.lo, b.lo; mov c.lo, T_Lo; adc T_Hi, a.hi, b.hi; mov c.hi, T_Hi
\* (subs and sbc for a - b), T_Lo and T_Hi being two fresh temporaries and the
\* operands the low and high words of a and b as legalized; everything in
\* front of them is a move that brings an operand into a register, so no
\* instruction between the low and the high operation touches the flags; and
\* run from any contents of a and b they leave (a + b) mod 2^64, respectively
\* (a - b) mod 2^64, in c.hi:c.lo.
C18_WideAddSub ==
  WideAddSub =>
    LET I == lowerOut.insts
        vs == lowerOut.Vars
        Inst == lowerIn.Inst
        k == Len(I) - 3
        Old == Len(lowerIn.Vars)
        IsAdd == Inst.which = "Add"
        c == vs[Inst.dest.n]
    IN /\ ~lowerOut.aborted
       /\ Len(I) >= 4
       /\ \A j \in 1..(k - 1) : I[j].op \in {"mov", "movw", "movt", "mvn"}
       /\ I[k].op = (IF IsAdd THEN "adds" ELSE "subs")
       /\ I[k + 1].op = "mov"
       /\ I[k + 1].srcs = <<I[k].dest>>
       /\ I[k + 1].dest = VarOp(vs, c.lo)
       /\ I[k + 2].op = (IF IsAdd THEN "adc" ELSE "sbc")
       /\ I[k + 3].op = "mov"
       /\ I[k + 3].srcs = <<I[k + 2].dest>>
       /\ I[k + 3].dest = VarOp(vs, c.hi)
       /\ c.lo # 0 /\ c.hi # 0 /\ c.lo # c.hi
       /\ I[k].dest.n > Old /\ I[k + 2].dest.n > Old
       /\ I[k].dest.n # I[k + 2].dest.n
       /\ \A j \in 1..Len(I) : "pred" \notin DOMAIN I[j]
       /\ lowerOut.ran =>
            LET a == ValueIn(vs, lowerOut.pre, Inst.srcs[1])
                b == ValueIn(vs, lowerOut.pre, Inst.srcs[2])
            IN ValueIn(vs, lowerOut.post, Inst.dest) =
                 (IF IsAdd THEN Plus64(a, b) ELSE Minus64(a, b))

\* 2^32 - 1 was added to 2^33 - 1: the carry of the low words went into the
\* high words and c.hi:c.lo holds 2^33 + 2^32 - 2.
C18_Witness ==
  /\ WideAddSub
  /\ lowerOut.ran
  /\ lowerIn.Inst.which = "Add"
  /\ lowerIn.Inst.srcs = <<LV(5), LV(6)>>
  /\ ValueIn(lowerOut.Vars, lowerOut.pre, LV(5)) = 0..31
  /\ ValueIn(lowerOut.Vars, lowerOut.pre, LV(6)) = 0..32
  /\ ValueIn(lowerOut.Vars, lowerOut.post, LV(4)) = (1..31) \cup {33}


\* The condition of an icmp on the low w bits of x and y (w <= 32), read from
\* the bits: the signed order is the unsigned order with the sign bits flipped.
IcmpHolds(cond, x, y, w) ==
  LET Low(z) == z \cap (0..(w - 1))
      Flip(z) == (Low(z) \cup {w - 1}) \ (Low(z) \cap {w - 1})
      Less(a, b) == \/ Digit(a, 1) < Digit(b, 1)
                    \/ Digit(a, 1) = Digit(b, 1) /\ Digit(a, 0) < Digit(b, 0)
      U == Less(Low(x), Low(y))
      S == Less(Flip(x), Flip(y))
      E == Low(x) = Low(y)
  IN CASE cond = "Eq" -> E
       [] cond = "Ne" -> ~E
       [] cond = "Ult" -> U
       [] cond = "Ule" -> U \/ E
       [] cond = "Ugt" -> ~U /\ ~E
       [] cond = "Uge" -> ~U
       [] cond = "Slt" -> S
       [] cond = "Sle" -> S \/ E
       [] cond = "Sgt" -> ~S /\ ~E
       [] OTHER -> ~S

\* An icmp on operands of at most 32 bits was lowered.
NarrowIcmp ==
  /\ lowerIn.op = "lower"
  /\ lowerOut.done
  /\ lowerIn.Inst.op = "InstIcmp"
  /\ lowerIn.Vars[lowerIn.Inst.dest.n].ty # "v4i32"
  /\ lowerIn.Vars[lowerIn.Inst.srcs[1].n].ty \in {"i1", "i8", "i16", "i32"}

\* C19: for an icmp on i1, i8 or i16 operands, with S = 32 less the type's
\* width, the instructions inserted hold one lsl by S of the first operand, a
\* mov T, #0, one cmp of the shifted first operand with the second operand's
\* register shifted left by S, a conditional mov T, #1 and the mov of T to
\* Dest, in this order; run from any contents of the operands' registers they
\* leave 1 in Dest when the condition holds of the low bits of the two
\* operands and 0 when it does not, whatever the bits above the type's width;
\* for i32 no lsl is inserted, the cmp takes unshifted operands and Dest is as
\* the condition on all 32 bits.
C19_IcmpNarrow ==
  NarrowIcmp =>
    LET I == lowerOut.insts
        vs == lowerOut.Vars
        Inst == lowerIn.Inst
        w == CASE vs[Inst.srcs[1].n].ty = "i1" -> 1
               [] vs[Inst.srcs[1].n].ty = "i8" -> 8
               [] vs[Inst.srcs[1].n].ty = "i16" -> 16
               [] OTHER -> 32
        At(opc) == { j \in 1..Len(I) : I[j].op = opc }
        n == Len(I)
    IN /\ ~lowerOut.aborted
       /\ n >= 4
       /\ Cardinality(At("cmp")) = 1
       /\ I[n - 2].op = "cmp"
       /\ I[n - 1].op = "mov_nonkillable"
       /\ I[n - 1].srcs = <<ConstInt({0})>>
       /\ I[n].op = "mov" /\ I[n].dest = Inst.dest /\ I[n].srcs = <<I[n - 1].dest>>
       /\ \E z \in 1..(n - 3) :
            /\ I[z].op = "mov" /\ I[z].dest = I[n - 1].dest
            /\ I[z].srcs = <<ConstInt({})>>
            /\ \A l \in At("lsl") : l < z
       /\ IF w < 32
            THEN /\ Cardinality(At("lsl")) = 1
                 /\ \A l \in At("lsl") :
                      /\ I[l].srcs[2] = ConstInt(Bits(32 - w))
                      /\ I[l].dest = I[n - 2].srcs[1]
                 /\ I[n - 2].srcs[2].k = "flexreg"
                 /\ I[n - 2].srcs[2].shift = "LSL"
                 /\ I[n - 2].srcs[2].amt = 32 - w
            ELSE /\ At("lsl") = {}
                 /\ I[n - 2].srcs[2].k \in {"var", "flex"}
       /\ lowerOut.ran =>
            LET x == ValueIn(vs, lowerOut.pre, Inst.srcs[1])
                y == ValueIn(vs, lowerOut.pre, Inst.srcs[2])
            IN lowerOut.post[Inst.dest.n] =
                 (IF IcmpHolds(Inst.which, x, y, w) THEN {0} ELSE {})

\* icmp ult on i8 registers holding 0x17F and 0x80: the low bytes 0x7F and 0x80
\* are compared and Dest is 1, though 0x17F is above 0x80.
C19_Witness ==
  /\ NarrowIcmp
  /\ lowerOut.ran
  /\ lowerIn.Inst.which = "Ult"
  /\ lowerIn.Inst.srcs = <<LV(12), LV(13)>>
  /\ lowerOut.pre[12] = Bits(383)
  /\ lowerOut.pre[13] = Bits(128)
  /\ lowerOut.post[18] = {0}
  /\ Len(lowerOut.insts) = 7


\* The arguments that go on the stack under the calling convention, given the
\* types from argument i on and the core registers taken so far: an i32 takes
\* the next of r0..r3, an i64 the next even pair, and once an argument has gone
\* on the stack no core register is left; other types get no place here.
RECURSIVE OnStack(_, _, _)
OnStack(tys, i, ncrn) ==
  IF i > Len(tys) THEN {}
  ELSE IF tys[i] = "i32"
    THEN IF ncrn < 4 THEN OnStack(tys, i + 1, ncrn + 1)
         ELSE {i} \cup OnStack(tys, i + 1, 4)
  ELSE IF tys[i] = "i64"
    THEN IF ncrn + (ncrn % 2) + 2 <= 4 THEN OnStack(tys, i + 1, ncrn + (ncrn % 2) + 2)
         ELSE {i} \cup OnStack(tys, i + 1, 4)
  ELSE OnStack(tys, i + 1, ncrn)

\* The stack arguments of the function, as positions in Args.
StackPassed == OnStack([i \in 1..Len(Args) |-> Vars[Args[i]].ty], 1, 0)

\* C20: after addProlog the stack-passed arguments have, in argument order,
\* the offsets BasicFrameOffset plus the on-stack widths (4 for an i32, 8 for
\* an i64) of the stack-passed arguments in front of them, BasicFrameOffset
\* being PreservedRegsSizeBytes with a frame pointer and PreservedRegsSizeBytes
\* + SpillAreaSizeBytes without; the offset of an i64 argument that was split
\* is that of its lo, and its hi has lo's offset + 4; so the offsets ascend
\* strictly and the slots do not overlap.
C20_StackArgOffsets ==
  tph \in {"epilog", "done"} =>
    LET Base == IF UsesFramePointer THEN frameLog.Preserved
                ELSE frameLog.Preserved + SpillAreaSizeBytes
        Ty(i) == Vars[Args[i]].ty
        Width(i) == IF Ty(i) = "i64" THEN 8 ELSE 4
        Before(i) == 4 * Cardinality({ m \in StackPassed : m < i /\ Ty(m) = "i32" })
                       + 8 * Cardinality({ m \in StackPassed : m < i /\ Ty(m) = "i64" })
        Off(i) == IF Vars[Args[i]].lo # 0 THEN Vars[Vars[Args[i]].lo].off
                  ELSE Vars[Args[i]].off
    IN /\ \A i \in StackPassed :
            /\ Off(i) = Base + Before(i)
            /\ Vars[Args[i]].lo # 0 =>
                 Vars[Vars[Args[i]].hi].off = Vars[Vars[Args[i]].lo].off + 4
       /\ \A i, j \in StackPassed : i < j => Off(i) + Width(i) <= Off(j)

\* A function without frame pointer and with a spill area whose fourth
\* argument, an i64 that found no register pair, was split, and whose fifth is
\* an i32: lo, hi and the fifth are 0, 4 and 8 bytes above the preserved
\* registers and the spill area.
C20_Witness ==
  /\ tph = "done"
  /\ ~UsesFramePointer
  /\ SpillAreaSizeBytes > 0
  /\ frameLog.Preserved > 0
  /\ Len(Args) = 5
  /\ StackPassed = {4, 5}
  /\ Vars[Args[4]].lo # 0
  /\ Vars[Vars[Args[4]].lo].off = frameLog.Preserved + SpillAreaSizeBytes
  /\ Vars[Vars[Args[4]].hi].off = frameLog.Preserved + SpillAreaSizeBytes + 4
  /\ Vars[Args[5]].off = frameLog.Preserved + SpillAreaSizeBytes + 8

-----------------------------------------------------------------------------
(* SpecRepeat: instrumentGlobals called twice on the same list, the calls in
   sequence or overlapping, no instrumentStart under way *)

RepeatInit ==
  /\ AssertsEnabled \in BOOLEAN
  /\ origGlobals \in SeqsUpTo(GlobalInputs, MaxGlobals)
  /\ Decls = [k \in 1..Len(origGlobals) |-> DeclOfInput(k, origGlobals[k])]
  /\ Globals = [k \in 1..Len(origGlobals) |-> k]
  /\ NewGlobals = [c \in GCalls |-> <<>>]
  /\ gpc = [c \in GCalls |-> "idle"]
  /\ gi = [c \in GCalls |-> 0]
  /\ DidProcessGlobals = FALSE
  /\ RzGlobalsNum = 0
  /\ RzNum = 0
  /\ mutexHeld = FALSE
  /\ GlobalsLock = [hasMutex |-> TRUE, owns |-> FALSE]
  /\ wpc = [w \in Workers |-> "off"]
  /\ callArgs = [w \in Workers |-> <<>>]
  /\ FuncIdle
  /\ TargetIdle

RepeatNext ==
  \E c \in GCalls :
    \/ GlobalsCall(c)
    \/ GlobalsCheck(c)
    \/ GlobalsCreate(c)
    \/ GlobalsLoop(c)
    \/ GlobalsReplace(c)
    \/ GlobalsPublish(c)
    \/ GlobalsNotify(c)

SpecRepeat == RepeatInit /\ [][RepeatNext]_vars

\* Every call of instrumentGlobals the run makes has returned.
AllCallsOver == \A c \in GCalls : gpc[c] \in {"returned", "done"}

\* The calls that went past `if (DidProcessGlobals) return;`.
Processing ==
  { c \in GCalls : gpc[c] \in {"create", "loop", "replace", "publish", "notify",
                               "done", "aborted"} }

\* C21: for any sequence of instrumentGlobals calls on the same list, in
\* sequence or concurrent, the redzones are inserted exactly once: when the
\* calls are over the list has 2 + 3n entries for n original globals,
\* RzGlobalsNum is 2n and so is the redzone name counter, and a call that
\* finds DidProcessGlobals set changes none of them.
C21_AsStated ==
  AllCallsOver =>
    /\ Len(Globals) = 2 + 3 * Len(origGlobals)
    /\ RzGlobalsNum = 2 * Len(origGlobals)
    /\ RzNum = 2 * Len(origGlobals)

\* C21, the calls in sequence: as long as one call alone went past the check
\* of DidProcessGlobals, the counts are those of one insertion.
C21_OnceWhenSequential ==
  (AllCallsOver /\ Cardinality(Processing) = 1) =>
    /\ Len(Globals) = 2 + 3 * Len(origGlobals)
    /\ RzGlobalsNum = 2 * Len(origGlobals)
    /\ RzNum = 2 * Len(origGlobals)

\* The second call was made after the first was over and returned at once,
\* on a list of two globals.
C21_Witness ==
  /\ gpc[1] = "done"
  /\ gpc[2] = "returned"
  /\ Len(origGlobals) = 2
  /\ RzGlobalsNum = 4
  /\ Len(Globals) = 8

-----------------------------------------------------------------------------
(* legalize of a ConstantInteger32: when MVN is used *)

\* legalize was given the ConstantInteger32 v and did not return it as a
\* FlexImm although its complement fits one.
MvnCase ==
  /\ lowerIn.op = "legalize" /\ lowerOut.done /\ lowerIn.From.k = "const"
  /\ ~("Flex" \in lowerIn.Allowed /\ canHoldImm(lowerIn.From.bits).ok)
  /\ canHoldImm(Not32(lowerIn.From.bits)).ok

\* C23: when legalize is given a ConstantInteger32 v that is not returned as
\* a FlexImm (Flex is not allowed, or v does not fit) and ~v fits a FlexImm,
\* it emits a single MVN of the FlexImm for ~v into a fresh register, under
\* every allowed mask; MOVW/MOVT is used only when neither v (with Flex
\* allowed) nor ~v fits.
C23_AsStated ==
  /\ MvnCase =>
       /\ Len(lowerOut.insts) = 1
       /\ lowerOut.insts[1].op = "mvn"
       /\ lowerOut.insts[1].dest = lowerOut.op
       /\ lowerOut.insts[1].srcs[1].k = "flex"
       /\ Rotr(lowerOut.insts[1].srcs[1].bits, lowerOut.insts[1].srcs[1].n)
            = Not32(lowerIn.From.bits)
  /\ (/\ lowerIn.op = "legalize" /\ lowerOut.done /\ lowerIn.From.k = "const"
      /\ \E k \in 1..Len(lowerOut.insts) : lowerOut.insts[k].op = "movw")
       => ~MvnCase

\* C23 where Flex is allowed: the MVN of the FlexImm for ~v is emitted.
C23_MvnUnderFlex ==
  (MvnCase /\ "Flex" \in lowerIn.Allowed) =>
    /\ Len(lowerOut.insts) = 1
    /\ lowerOut.insts[1].op = "mvn"
    /\ Rotr(lowerOut.insts[1].srcs[1].bits, lowerOut.insts[1].srcs[1].n)
         = Not32(lowerIn.From.bits)

\* 0xFFFFFF00 legalized with only a register allowed: its complement 0xFF
\* fits a FlexImm, and it is a constant of the MVN case.
C23_Witness ==
  /\ MvnCase
  /\ lowerIn.Allowed = {"Reg"}
  /\ lowerIn.From.bits = Not32(Bits(255))
  /\ lowerOut.op.k = "var"

-----------------------------------------------------------------------------
(* SpecOperand: loOperand and hiOperand of an i64 memory operand, and the
   address each operand denotes once the inserted instructions have run *)

\* The base registers tried: a Variable on the stack, one of infinite weight,
\* one in r5; the index is in r6.
MemBases ==
  { Opnd("var", {}, 1, NoRegister, FALSE), Opnd("var", {}, 1, NoRegister, TRUE),
    Opnd("var", {}, 1, 5, FALSE) }

MemIndex == Opnd("var", {}, 2, 6, FALSE)

\* The immediate offsets tried: 0, 4, 8, 4088, 4092, 4095, -4, -8, -4092,
\* -4095.
MemOffsets ==
  { Bits(n) : n \in {0, 4, 8, 4088, 4092, 4095} }
    \cup { Not32(Bits(n - 1)) : n \in {4, 8, 4092, 4095} }

MemInputs ==
  { MemOp(B, NoOpnd, off, "kNoShift", 0, mode) :
      B \in MemBases, off \in MemOffsets, mode \in {"Offset", "NegOffset"} }
    \cup { MemOp(B, MemIndex, {}, sh[1], sh[2], mode) :
             B \in MemBases,
             sh \in { <<"kNoShift", 0>>, <<"LSL", 2>>, <<"LSR", 1>>, <<"ASR", 3>> },
             mode \in {"Offset", "NegOffset"} }

\* The contents of the base register tried: 0x1000, 0x10000, 0x7FFFFFFC,
\* 0xFFFFFFFC; and of the index register: 0, 12, 0xFFFFFFFF.
BaseWords == { Bits(4096), Bits(65536), Bits(2147483644), Not32(Bits(3)) }
IndexWords == { {}, Bits(12), 0..31 }

\* The address a memory operand denotes in the registers env: base plus the
\* immediate, a two's complement word, or base plus or minus the shifted
\* index according to the addressing mode.
AddressOf(Mem, env) ==
  IF isRegReg(Mem)
    THEN LET X == ShiftW(Mem.shift, env[Mem.index.n], Mem.amt)
         IN IF Mem.mode = "NegOffset"
              THEN AddWithCarry(env[Mem.base.n], Not32(X), TRUE).result
              ELSE AddWithCarry(env[Mem.base.n], X, FALSE).result
    ELSE AddWithCarry(env[Mem.base.n], Mem.bits, FALSE).result

OperandInit ==
  /\ lowerIn \in [op : {"lohi"}, Mem : MemInputs, x : BaseWords, y : IndexWords,
                  SkipUnimplemented : BOOLEAN]
  /\ lowerOut = [done |-> FALSE]

\* loOperand(Mem) and hiOperand(Mem) in the order lowerAssign calls them; the
\* instructions hiOperand inserted then run from registers that hold x in the
\* base and y in the index.
LoHiMem ==
  /\ lowerIn.op = "lohi"
  /\ ~lowerOut.done
  /\ LET Mem == lowerIn.Mem
         vs == << [NewVariable("i32") EXCEPT !.reg = Mem.base.reg,
                                             !.inf = Mem.base.inf],
                  [NewVariable("i32") EXCEPT !.reg = MemIndex.reg] >>
         Env(n) == [v \in 0..n |-> IF v = 1 THEN lowerIn.x
                                   ELSE IF v = 2 THEN lowerIn.y ELSE Junk]
         Ran(lo, hi, m) ==
           lowerOut' = [done |-> TRUE, lo |-> lo.op, hi |-> hi.op,
                        insts |-> hi.insts, Vars |-> hi.Vars,
                        addr |-> AddressOf(Mem, Env(Len(hi.Vars))),
                        loAddr |-> AddressOf(lo.op, m.env),
                        hiAddr |-> AddressOf(hi.op, m.env)]
         Hi(lo, hi) ==
           Ran(lo, hi, Run(hi.insts, [env |-> Env(Len(hi.Vars)), N |-> FALSE,
                                       Z |-> FALSE, C |-> FALSE, V |-> FALSE]))
         Lo(lo) == Hi(lo, hiOperandIn(lo, Mem, lowerIn.SkipUnimplemented))
     IN Lo(loOperandIn(Lowering(vs), Mem))
  /\ UNCHANGED <<lowerIn, notLower>>

SpecOperandInit ==
  ASanIdle /\ FuncIdle /\ PipeIdle /\ OperandInit /\ CodeIdle /\ FrameIdle

SpecOperand == SpecOperandInit /\ [][LoHiMem]_vars

\* C22: for every i64 memory operand M in Offset or NegOffset mode, in
\* immediate-offset or register-register form, loOperand(M) denotes the
\* address of M and hiOperand(M) denotes that address plus 4, both when the
\* offset plus 4 still fits the load/store immediate and when a fresh base
\* register holding base + 4 is used; a register-register operand keeps its
\* index and the index's shift.
C22_LoHiAddresses ==
  (lowerIn.op = "lohi" /\ lowerOut.done) =>
    /\ lowerOut.loAddr = lowerOut.addr
    /\ lowerOut.hiAddr = AddWithCarry(lowerOut.addr, Bits(4), FALSE).result
    /\ lowerOut.lo.mode = lowerIn.Mem.mode
    /\ lowerOut.hi.mode = lowerIn.Mem.mode
    /\ lowerOut.hi.index = lowerIn.Mem.index
    /\ lowerOut.hi.shift = lowerIn.Mem.shift
    /\ lowerOut.hi.amt = lowerIn.Mem.amt
    /\ ~isRegReg(lowerIn.Mem) =>
         IF canHoldOffset(AddWithCarry(lowerIn.Mem.bits, Bits(4), FALSE).result)
           THEN lowerOut.hi.base = lowerIn.Mem.base /\ lowerOut.insts = <<>>
           ELSE lowerOut.hi.base # lowerIn.Mem.base
                  /\ lowerOut.hi.bits = lowerIn.Mem.bits

\* [base, #4092] with the base at 0xFFFFFFFC: 4096 fits no load, so the high
\* word is at [NewBase, #4092] with NewBase = base + 4 = 0, made by an add.
C22_Witness ==
  /\ lowerIn.op = "lohi" /\ lowerOut.done
  /\ ~isRegReg(lowerIn.Mem)
  /\ lowerIn.Mem.bits = Bits(4092)
  /\ lowerIn.x = Not32(Bits(3))
  /\ lowerOut.hi.base # lowerIn.Mem.base
  /\ lowerOut.hi.bits = Bits(4092)
  /\ \E j \in 1..Len(lowerOut.insts) : lowerOut.insts[j].op = "add"
  /\ lowerOut.hiAddr = Bits(4092)

-----------------------------------------------------------------------------
(* lowerAssign of an i64 *)

\* An i64 assign has been lowered.
Assigned64 ==
  /\ lowerIn.op = "lower" /\ lowerOut.done
  /\ lowerIn.Inst.op = "InstAssign"
  /\ lowerIn.Vars[lowerIn.Inst.dest.n].ty = "i64"

\* The last four instructions are T_lo := lo; dest.lo := T_lo; T_hi := hi;
\* dest.hi := T_hi with T_lo and T_hi two temporaries made by the lowering.
MovesThroughTemporaries(lo(_), hi(_)) ==
  LET I == lowerOut.insts
      n == Len(I)
      vs == lowerOut.Vars
      d == lowerIn.Inst.dest.n
      Fresh(T) == T.k = "var" /\ T.n > Len(lowerIn.Vars) /\ T.inf
  IN /\ n >= 4
     /\ I[n - 3].op = "mov" /\ Fresh(I[n - 3].dest) /\ lo(I[n - 3].srcs[1])
     /\ I[n - 2] = Arm("mov", VarOp(vs, vs[d].lo), <<I[n - 3].dest>>)
     /\ I[n - 1].op = "mov" /\ Fresh(I[n - 1].dest) /\ hi(I[n - 1].srcs[1])
     /\ I[n] = Arm("mov", VarOp(vs, vs[d].hi), <<I[n - 1].dest>>)
     /\ I[n - 3].dest # I[n - 1].dest
     /\ vs[d].lo # 0 /\ vs[d].hi # 0

\* The halves of the source of the assign, by the kind of the source.
IsLoOfSrc(O) ==
  LET S == lowerIn.Inst.srcs[1]
  IN CASE S.k = "var" -> O = VarOp(lowerOut.Vars, lowerOut.Vars[S.n].lo)
       [] S.k = "const" -> O = ConstInt(S.bits \cap (0..31))
       [] OTHER -> /\ O.k = "mem" /\ O.bits = S.bits /\ O.mode = S.mode
                   /\ isRegReg(O) = isRegReg(S)
                   /\ O.shift = S.shift /\ O.amt = S.amt

IsHiOfSrc(O) ==
  LET S == lowerIn.Inst.srcs[1]
  IN CASE S.k = "var" -> O = VarOp(lowerOut.Vars, lowerOut.Vars[S.n].hi)
       [] S.k = "const" -> O = ConstInt({ i - 32 : i \in S.bits \cap (32..63) })
       [] OTHER -> /\ O.k = "mem" /\ O.mode = S.mode
                   /\ isRegReg(O) = isRegReg(S)
                   /\ O.shift = S.shift /\ O.amt = S.amt

\* C24: lowering an i64 assign emits, for every kind of source that loOperand
\* and hiOperand accept (i64 Variable, ConstantInteger64, memory operand), the
\* moves T_lo := src.lo; dest.lo := T_lo; T_hi := src.hi; dest.hi := T_hi
\* through two fresh temporaries, and reaches neither UnimplementedError nor
\* an assertion that fails.
C24_AsStated ==
  Assigned64 =>
    /\ ~lowerOut.aborted
    /\ ~lowerOut.asserted
    /\ MovesThroughTemporaries(IsLoOfSrc, IsHiOfSrc)

\* C24 for a Variable or a memory operand as the source.
C24_VariableOrMemory ==
  (Assigned64 /\ lowerIn.Inst.srcs[1].k # "const") =>
    /\ ~lowerOut.aborted
    /\ ~lowerOut.asserted
    /\ MovesThroughTemporaries(IsLoOfSrc, IsHiOfSrc)

\* The assign of ConstantInteger64 0x0000000200000001 was lowered with
\* SkipUnimplemented set: legalize went on into copyToReg and makeReg.
C24_Witness ==
  /\ Assigned64
  /\ lowerIn.Inst.srcs[1].k = "const"
  /\ lowerIn.SkipUnimplemented
  /\ lowerOut.asserted
  /\ ~lowerOut.aborted

-----------------------------------------------------------------------------
(* i64 shifts *)

\* b shifted by c as a 64-bit value: left, right logical, right arithmetic.
Shift64(which, b, c) ==
  CASE which = "Shl" -> { i + c : i \in { j \in b : j + c <= 63 } }
    [] which = "Lshr" -> { i - c : i \in { j \in b : j >= c } }
    [] OTHER -> { i - c : i \in { j \in b : j >= c } }
                  \cup (IF 63 \in b THEN { i \in 0..63 : i >= 64 - c } ELSE {})

\* The instructions of an i64 shift have run with an amount from 0 to 63 in
\* the low word of the shift operand.
Shifted64 ==
  /\ lowerIn.op = "lower" /\ lowerOut.done /\ lowerOut.ran
  /\ IsShift64(lowerOut.Vars, lowerIn.Inst)
  /\ ValueIn(lowerOut.Vars, lowerOut.pre, lowerIn.Inst.srcs[2]) \cap (0..31)
       \subseteq 0..5

\* Whether the predicated ORR passed its condition when the inserted
\* instructions ran from the registers pre.
PLPassed ==
  LET I == lowerOut.insts
      k == CHOOSE k \in 1..Len(I) : "pred" \in DOMAIN I[k]
  IN ConditionPassed(Run(SubSeq(I, 1, k - 1),
                         [env |-> lowerOut.pre, N |-> FALSE, Z |-> FALSE,
                          C |-> FALSE, V |-> FALSE]), I[k].pred)

\* C25: for i64 Shl, Lshr and Ashr, every shift amount c in 0..63 taken from
\* the low word of the shift operand and every value b, the lowered sequence,
\* run under the rule that a register-specified shift uses the low 8 bits of
\* the register and that shifts by 32 or more give 0 (the sign for ASR),
\* leaves in dest.hi:dest.lo the 64-bit b << c, b >> c logical or b >> c
\* arithmetic; the ORR of Ashr predicated on PL executes exactly when c >= 32.
C25_Shift64 ==
  Shifted64 =>
    LET Inst == lowerIn.Inst
        vs == lowerOut.Vars
        b == ValueIn(vs, lowerOut.pre, Inst.srcs[1])
        c == Val(ValueIn(vs, lowerOut.pre, Inst.srcs[2]) \cap (0..31))
    IN /\ ValueIn(vs, lowerOut.post, Inst.dest) = Shift64(Inst.which, b, c)
       /\ Inst.which = "Ashr" =>
            /\ \E k \in 1..Len(lowerOut.insts) :
                 /\ "pred" \in DOMAIN lowerOut.insts[k]
                 /\ lowerOut.insts[k].op = "orr"
            /\ PLPassed <=> c >= 32

\* 0x8000000180000001 shifted right arithmetically by 5: the ORR predicated on
\* PL did not run, and the sign went into the top five bits.
C25_Witness ==
  /\ Shifted64
  /\ lowerIn.Inst.which = "Ashr"
  /\ ValueIn(lowerOut.Vars, lowerOut.pre, lowerIn.Inst.srcs[1]) = {0, 31, 32, 63}
  /\ ValueIn(lowerOut.Vars, lowerOut.pre, lowerIn.Inst.srcs[2]) = Bits(5) \cup {32}
  /\ ~PLPassed
  /\ ValueIn(lowerOut.Vars, lowerOut.post, lowerIn.Inst.dest)
       = {26, 27} \cup (58..63)

-----------------------------------------------------------------------------
(* lowerAlloca on the core *)

\* The instructions of an alloca have run.
AllocaRan ==
  /\ lowerIn.op = "lower" /\ lowerOut.done /\ lowerOut.ran
  /\ lowerIn.Inst.op = "InstAlloca"

\* The alignment the instruction asks for and A = max(a, 16), 0 taken as 1.
AskedAlign == Val(lowerIn.Inst.srcs[2].bits)
AllocaA == IF AskedAlign > 16 THEN AskedAlign ELSE 16

\* The size asked for: the constant, or what the size variable held.
AskedSize ==
  IF lowerIn.Inst.srcs[1].k = "var"
    THEN Val(lowerOut.pre[lowerIn.Inst.srcs[1].n])
    ELSE Val(lowerIn.Inst.srcs[1].bits)

\* What the instructions up to the first BIC or AND, the alignment of SP, left
\* in SP.
SPAfterAlign ==
  LET I == lowerOut.insts
      k == CHOOSE k \in 1..Len(I) :
             /\ I[k].op \in {"bic", "and"}
             /\ \A j \in 1..(k - 1) : I[j].op \notin {"bic", "and"}
  IN Run(SubSeq(I, 1, k),
         [env |-> lowerOut.pre, N |-> FALSE, Z |-> FALSE, C |-> FALSE,
          V |-> FALSE]).env[0]

\* C26: for every alloca with power-of-two alignment a (0 taken as 1) and
\* A = max(a, 16): from an SP that is 16-byte aligned the lowered sequence
\* leaves SP a multiple of A, Dest equal to SP, and SP lower by at least the
\* size asked for: by align_up(S, A), from SP with its low bits cleared when
\* A > 16, for a constant size S and for a size in a register alike, where no
\* 32-bit overflow happens; alignRegisterPow2 leaves reg AND NOT(A - 1) in the
\* register on its BIC path and on its AND path.
C26_AllocaAligned ==
  AllocaRan =>
    LET pre == lowerOut.pre[0]
        post == lowerOut.post[0]
        cleared == pre \ Bits(AllocaA - 1)
        up == AskedSize + ((AllocaA - (AskedSize % AllocaA)) % AllocaA)
    IN /\ post \cap Bits(AllocaA - 1) = {}
       /\ lowerOut.post[lowerIn.Inst.dest.n] = post
       /\ 31 \notin post
       /\ Val(post) = Val(cleared) - up
       /\ Val(pre) - Val(post) >= AskedSize
       /\ AllocaA > 16 => SPAfterAlign = cleared
       /\ AllocaA > 16 =>
            \E k \in 1..Len(lowerOut.insts) :
              lowerOut.insts[k].op = (IF AllocaA <= 256 THEN "bic" ELSE "and")

\* An alloca of 100 bytes held in a register, aligned to 512: SP goes from
\* 0x41000030 to 0x41000000 by an AND with a mask moved into a register, then
\* down by 512.
C26_Witness ==
  /\ AllocaRan
  /\ AskedAlign = 512
  /\ lowerIn.Inst.srcs[1].k = "var"
  /\ AskedSize = 100
  /\ lowerOut.pre[0] = Bits(1090519088)
  /\ lowerOut.post[0] = Bits(1090518528)
  /\ \E k \in 1..Len(lowerOut.insts) : lowerOut.insts[k].op = "movt"

-----------------------------------------------------------------------------
(* SpecGlobalsFair: SpecGlobals with every thread scheduled *)

\* The statements of instrumentGlobals call c.
GlobalsStep(c) ==
  \/ GlobalsCall(c)
  \/ GlobalsCheck(c)
  \/ GlobalsCreate(c)
  \/ GlobalsLoop(c)
  \/ GlobalsReplace(c)
  \/ GlobalsPublish(c)
  \/ GlobalsNotify(c)

\* The statements of worker w's instrumentStart that the thread itself takes;
\* a wake-up without a notification is the condition variable's doing and
\* nothing promises it.
StartStep(w) ==
  \/ StartCall(w)
  \/ StartCheck(w)
  \/ StartLock(w)
  \/ StartLoopCheck(w)
  \/ StartWait(w)
  \/ StartReacquire(w)
  \/ StartRelease(w)
  \/ StartAddArgs(w)

\* A thread that can take its next statement takes it in the end.
SpecGlobalsFair ==
  /\ GlobalsInit
  /\ [][GlobalsNext]_vars
  /\ \A c \in GCalls : WF_vars(GlobalsStep(c))
  /\ \A w \in Workers : WF_vars(StartStep(w))

\* C27: if instrumentGlobals completes, every instrumentStart call a worker
\* has made returns in the end, whatever the interleaving.
C27_AsStated ==
  (<>(gpc[1] = "done")) =>
    \A w \in Workers : [](wpc[w] = "check" => <>(wpc[w] = "done"))

\* The lost wake-up: instrumentGlobals has set DidProcessGlobals and notified,
\* and a worker that tested the flag before the write blocks in wait() after
\* the notification.
C27_Witness ==
  /\ gpc[1] = "done"
  /\ DidProcessGlobals
  /\ \E w \in Workers : wpc[w] = "waiting"

-----------------------------------------------------------------------------
(* SpecWalk: every list of i32 and i64 arguments through genFrame *)

\* Every list of up to MaxArgs i32 and i64 arguments.
WalkArgLists == SeqsUpTo({"i32", "i64"}, MaxArgs)

SpecWalkInit ==
  ASanIdle /\ FuncIdle /\ PipeIdle /\ LowerIdle
    /\ CodeInitWith(WalkArgLists, [k \in 0..MaxArgs |-> JustRet]) /\ FrameIdle

SpecWalk == SpecWalkInit /\ [][FrameNext]_vars

\* lowerArguments' NumGPRRegsUsed after the first k arguments.
NumGPRRegsUsedAfter(k) ==
  lowerArguments([Vars |-> Vars, Args |-> [i \in 1..k |-> i], used |-> 0,
                  insts |-> <<>>, aborted |-> FALSE], 1, TRUE).used

\* addProlog's NumGPRArgs after the first k arguments.
RECURSIVE NumGPRArgsAfterFirst(_)
NumGPRArgsAfterFirst(k) ==
  IF k = 0 THEN 0
  ELSE NumGPRArgsAfter(Vars[Args[k]].ty, NumGPRArgsAfterFirst(k - 1))

\* The arguments lowerArguments replaced by a home register.
Homed == { I \in 1..Len(Args) : Args[I] # I }

\* The arguments addProlog's walk handed to finishArgumentLowering.
Placed == { frameLog.placed[j] : j \in 1..Len(frameLog.placed) }

\* C28: for every list of i32 and i64 arguments the arguments lowerArguments
\* replaces by a home register are exactly those addProlog's walk skips as
\* passed in registers: every argument has a home register or is given a stack
\* offset by finishArgumentLowering, never both and never neither, and the
\* two GPR counters agree after each argument, also when an i64 is padded
\* past r3.
C28_HomeOrStack ==
  tph \in {"epilog", "done"} =>
    /\ Homed \cap Placed = {}
    /\ Homed \cup Placed = 1..Len(Args)
    /\ Len(frameLog.placed) = Cardinality(Placed)
    /\ \A I \in Homed : Vars[Args[I]].isArg /\ HomeRegs(I) # <<>>
    /\ \A k \in 0..Len(Args) : NumGPRRegsUsedAfter(k) = NumGPRArgsAfterFirst(k)

\* Three i32, an i64 and an i32: the i64 met at r3 is padded past r3, both
\* counters go to 6, and it and the i32 after it are placed on the stack.
C28_Witness ==
  /\ tph = "done"
  /\ Len(Args) = 5
  /\ Homed = {1, 2, 3}
  /\ frameLog.placed = <<4, 5>>
  /\ Vars[Args[4]].ty = "i64"
  /\ NumGPRRegsUsedAfter(4) = 6
  /\ NumGPRArgsAfterFirst(4) = 6

-----------------------------------------------------------------------------
(* SpecReturn: the finished function run from entry to a return *)

\* Bodies with two allocas in the entry node, besides those of Bodies.
ReturnBodies(k) ==
  LET L32 == Opnd("var", {}, k + 2, NoRegister, FALSE)
      Two == << Arm("InstAlloca", L32, <<ConstInt(Bits(40)), ConstInt({})>>),
                Arm("InstAlloca", L32, <<L32, ConstInt(Bits(64))>>) >>
  IN Bodies(k)
       \cup { << Two \o <<Arm("InstRet", NoOpnd, <<>>)>> >>,
              << Two \o <<Arm("InstBr", NoOpnd, <<Opnd("label", {}, 2, NoRegister, FALSE)>>)>>,
                 <<Arm("InstRet", NoOpnd, <<L32>>)>> >> }

ReturnArgLists == { <<>>, <<"i32", "i32", "i32", "i64", "i32">> }

\* The instruction as the core sees it: a variable is its register, or the one
\* cell that stands for the stack slots (16); push and pop of n registers move
\* SP by 4n.
CoreView(I) ==
  LET SP == Opnd("var", {}, RegARM32.sp, RegARM32.sp, FALSE)
      R(O) == IF O.k = "var"
                THEN [O EXCEPT !.n = IF O.reg # NoRegister THEN O.reg ELSE 16]
              ELSE IF O.k = "flexreg"
                THEN [O EXCEPT !.base.n = IF O.base.reg # NoRegister
                                            THEN O.base.reg ELSE 16]
              ELSE O
  IN CASE I.op = "push" -> Arm("sub", SP, <<SP, ConstInt(Bits(4 * Len(I.srcs)))>>)
       [] I.op = "pop" -> Arm("add", SP, <<SP, ConstInt(Bits(4 * Len(I.srcs)))>>)
       [] I.op \in ExecOps ->
            [I EXCEPT !.dest = R(@), !.srcs = [k \in 1..Len(@) |-> R(@[k])]]
       [] OTHER -> Arm("nop", NoOpnd, <<>>)

\* The instructions of node n that are not deleted, up to its return if it
\* has one.
LiveUpToRet(n) ==
  LET L == SelectSeq(tNodes[n], LAMBDA I : ~I.deleted)
      rets == { j \in 1..Len(L) : L[j].op = "ret" }
  IN IF rets = {} THEN L
     ELSE SubSeq(L, 1, (CHOOSE j \in rets : \A q \in rets : j <= q) - 1)

\* The nodes that return.
RetNodes ==
  { n \in 1..Len(tNodes) :
      \E j \in 1..Len(tNodes[n]) : tNodes[n][j].op = "ret" /\ ~tNodes[n][j].deleted }

\* The function is run from its entry to the return of node n, SP holding sp
\* on entry and the stack slots y.
RunToReturn ==
  /\ tph = "done"
  /\ ~lowerOut.done
  /\ \E n \in RetNodes, sp \in {Bits(2147418128), Bits(1090519088)},
        y \in {Bits(24), Bits(4097)} :
       LET Path == (IF n = 1 THEN <<>> ELSE LiveUpToRet(1)) \o LiveUpToRet(n)
           Core == [j \in 1..Len(Path) |-> CoreView(Path[j])]
           Env == [v \in 0..16 |-> IF v = RegARM32.sp THEN sp
                                   ELSE IF v = 16 THEN y ELSE Junk]
       IN lowerOut' =
            [done |-> TRUE, node |-> n, pre |-> Env,
             post |-> Run(Core, [env |-> Env, N |-> FALSE, Z |-> FALSE,
                                 C |-> FALSE, V |-> FALSE]).env]
  /\ UNCHANGED <<lowerIn, pipeVars, asanVars, funcVars, codeVars, frameVars>>

ReturnNext == FrameNext \/ RunToReturn

SpecReturnInit ==
  ASanIdle /\ FuncIdle /\ PipeIdle /\ LowerIdle
    /\ CodeInitWith(ReturnArgLists, [k \in 0..MaxArgs |-> ReturnBodies(k)])
    /\ FrameIdle

SpecReturn == SpecReturnInit /\ [][ReturnNext]_vars

\* C29: at every return, after the epilog has run, SP has the value it had on
\* function entry: the epilog's restore of SP (the add of SpillAreaSizeBytes,
\* or mov SP, FP with a frame pointer) and its pop undo the prolog's push and
\* sub and every alloca's adjustment, with and without frame pointer and stack
\* alignment, in leaf and non-leaf functions, for any number of allocas.
C29_SPRestored ==
  (tph = "done" /\ lowerOut.done) =>
    lowerOut.post[RegARM32.sp] = lowerOut.pre[RegARM32.sp]

\* A non-leaf function with an alloca and a call, that pushes registers and has a spill area, run to the
\* return of its second node.
C29_Witness ==
  /\ tph = "done" /\ lowerOut.done
  /\ frameLog.allocas >= 1
  /\ UsesFramePointer /\ NeedsStackAlignment
  /\ frameLog.Preserved > 4
  /\ SpillAreaSizeBytes > 0
  /\ ~MaybeLeafFunc
  /\ lowerOut.node = 2

-----------------------------------------------------------------------------
(* SpecThreads: two translation threads, each instrumenting functions one
   after another *)

MaxFuncs == 2

\* The functions handed out: the sizes of the entry's constant-size allocas,
\* the entry's terminator, and the number of further nodes that return.
ThreadFuncs ==
  { [sizes |-> <<>>, term |-> "ret", r |-> 0],
    [sizes |-> <<40>>, term |-> "ret", r |-> 0],
    [sizes |-> <<1, 64>>, term |-> "br", r |-> 1] }

\* The instructions of thread t's k-th function are told apart from those of
\* every other function by their numbers, which start behind this one.
FirstIdOf(t, k) == 1000 * t + 50 * (k - 1)

OwnIds(t, k) == (FirstIdOf(t, k) + 1)..(FirstIdOf(t, k) + 50)

\* Thread t's k-th function f before instrumentFuncStart.
FuncState(f, t, k) ==
  LET entry == EntryNode(f.sizes, <<>>, f.term)
      n == Len(entry)
      Numbered(list) == [j \in 1..Len(list) |->
                           [list[j] EXCEPT !.id = @ + FirstIdOf(t, k)]]
  IN [fpc |-> "funcstart",
      Nodes |-> <<Numbered(entry)>>
                  \o [j \in 1..f.r |-> Numbered(RetNode(n + 2 * j - 1))],
      Context |-> CtxInit(entry, 1),
      entryAllocas |-> f.sizes,
      nextInst |-> FirstIdOf(t, k) + n + 2 * f.r,
      nextVar |-> n + 1,
      func |-> k]

\* The thread's function state st becomes the running one.
Load(st) ==
  /\ fpc' = st.fpc
  /\ Nodes' = st.Nodes
  /\ Context' = st.Context
  /\ entryAllocas' = st.entryAllocas
  /\ nextInst' = st.nextInst
  /\ nextVar' = st.nextVar

ThreadsInit ==
  /\ ASanIdle /\ TargetIdle
  /\ \E f1 \in ThreadFuncs, f2 \in ThreadFuncs :
       LET st == FuncState(f1, 1, 1)
       IN /\ fpc = st.fpc
          /\ Nodes = st.Nodes
          /\ Context = st.Context
          /\ entryAllocas = st.entryAllocas
          /\ nextInst = st.nextInst
          /\ nextVar = st.nextVar
          /\ threads =
               [running |-> 1, func |-> 1,
                parked |-> [t \in {2} |->
                              FuncState(f2, 2, 1)
                                @@ [LocalDtors |-> [allocated |-> FALSE,
                                                    list |-> <<>>]]]]
  /\ LocalDtors = [allocated |-> FALSE, list |-> <<>>]

\* The driver hands the running thread its next function; the thread's
\* LocalDtors stays what it is.
NextFunc ==
  /\ fpc = "done"
  /\ threads.func < MaxFuncs
  /\ \E f \in ThreadFuncs : Load(FuncState(f, threads.running, threads.func + 1))
  /\ threads' = [threads EXCEPT !.func = @ + 1]
  /\ UNCHANGED <<LocalDtors, RzNum, notFunc>>

\* Another thread runs: what the running thread stands at is put aside, its
\* LocalDtors with it, and the other thread goes on where it stood.
SwitchThread ==
  /\ \E t \in DOMAIN threads.parked :
       /\ Load(threads.parked[t])
       /\ LocalDtors' = threads.parked[t].LocalDtors
       /\ threads' =
            [running |-> t, func |-> threads.parked[t].func,
             parked |-> [u \in (DOMAIN threads.parked \ {t}) \cup {threads.running} |->
                           IF u = threads.running
                             THEN [fpc |-> fpc, Nodes |-> Nodes, Context |-> Context,
                                   entryAllocas |-> entryAllocas,
                                   nextInst |-> nextInst, nextVar |-> nextVar,
                                   func |-> threads.func, LocalDtors |-> LocalDtors]
                             ELSE threads.parked[u]]]
  /\ UNCHANGED <<RzNum, notFunc>>

ThreadsNext == FuncNext \/ NextFunc \/ SwitchThread

SpecThreads == ThreadsInit /\ [][ThreadsNext]_vars

\* The unpoison calls in a function's nodes and in a LocalDtors vector.
UnpoisonIds(nodes, dtors) ==
  UNION { { nodes[n][j].id : j \in { i \in 1..Len(nodes[n]) :
                                         IsUnpoison(nodes[n][i]) } } :
          n \in 1..Len(nodes) }
    \cup { dtors[j].id : j \in 1..Len(dtors) }

\* Every thread, with what it stands at.
AllThreads ==
  [t \in {threads.running} |->
     [fpc |-> fpc, Nodes |-> Nodes, func |-> threads.func,
      LocalDtors |-> LocalDtors]]
    @@ [t \in DOMAIN threads.parked |->
          [fpc |-> threads.parked[t].fpc, Nodes |-> threads.parked[t].Nodes,
           func |-> threads.parked[t].func,
           LocalDtors |-> threads.parked[t].LocalDtors]]

\* A thread's LocalDtors is left alone by every step another thread takes.
C30_OthersUntouched ==
  \A t \in DOMAIN threads.parked :
    \/ /\ t \in DOMAIN threads'.parked
       /\ threads'.parked[t].LocalDtors = threads.parked[t].LocalDtors
    \/ /\ threads'.running = t
       /\ LocalDtors' = threads.parked[t].LocalDtors
       /\ threads'.parked[threads.running].LocalDtors = LocalDtors

\* C30: for any sequence of functions instrumented by worker threads
\* (instrumentFuncStart, instrumentRet at each return, finishFunc), a thread's
\* LocalDtors is empty when the instrumentation of a function starts, no other
\* thread's step changes it, and the unpoison calls in a function F and in
\* LocalDtors while F is instrumented are those created for F, never those of
\* a function the thread instrumented before.
C30_LocalDtorsPerFunction ==
  /\ [](\A t \in DOMAIN AllThreads :
          /\ AllThreads[t].fpc = "funcstart" => AllThreads[t].LocalDtors.list = <<>>
          /\ UnpoisonIds(AllThreads[t].Nodes, AllThreads[t].LocalDtors.list)
               \subseteq OwnIds(t, AllThreads[t].func))
  /\ [][C30_OthersUntouched]_vars

\* Thread 1 has finished the walk of its second function, whose returns got
\* its two unpoison calls, after a first function that had redzones too, while
\* thread 2 stands in the middle of a function with its own vector filled.
C30_Witness ==
  /\ threads.running = 1
  /\ threads.func = 2
  /\ fpc = "finish"
  /\ Len(LocalDtors.list) = 2
  /\ \E n \in 1..Len(Nodes) : \E j \in 1..Len(Nodes[n]) : IsUnpoison(Nodes[n][j])
  /\ threads.parked[2].fpc = "walk"
  /\ Len(threads.parked[2].LocalDtors.list) = 3
  /\ RzNum > 5

====
